---- MODULE Spec2Model ----
(***************************************************************************)
(* A model of the game-hook discovery and class-matching tool of           *)
(* HighliteDesktop (src/src/ast/highSpellWalker.ts).                       *)
(*                                                                         *)
(* The tool is a linear pipeline; each of its components is modelled as a  *)
(* state machine of its own, with its own specification:                   *)
(*   SpecScore  calculateMatchScore applied to candidates under recovery   *)
(*   SpecWalk   analyzeFileForGameHooks: the scope-tracking AST walk       *)
(*   SpecReg    extractClassMappingsFromCore/analyzeFileForHookRegistrations*)
(*   SpecPipe   the matching loop of analyzeGameHookDependencies           *)
(* A specification keeps the variables of the other components idle.       *)
(***************************************************************************)
EXTENDS Integers, Sequences, FiniteSets, TLC

VARIABLES
    \* --- Match Scorer (calculateMatchScore) ---
    sPc,            \* "mutate": the candidate may gain a member; "score": it is scored next
    sHookName,      \* hookName argument
    sHookUsage,     \* hookUsage argument: [properties, methods], each Array.from(Set)
    sClientClass,   \* clientClass argument, a ClientClass
    sMatch,         \* <<>> or <<the ClassMatch last returned>>
    sPrevMatch,     \* <<>> or <<the ClassMatch returned before sMatch>>
    sLastAdd,       \* what the candidate gained between sPrevMatch and sMatch
    \* --- Hook Usage Extractor (analyzeFileForGameHooks) ---
    wPc,            \* "walk": statements of the file remain; "done": the walk returned
    wFile,          \* sourceFile, the syntax tree
    wIdx,           \* the top-level statement that visit reaches next
    scopeTracker,   \* [currentScope, scopeCounter, variableReferences]
    dependencies,   \* the GameHookDependency list
    wWarnings,      \* history: the console.warn calls of the catch block
    \* --- Hook Registration Extractor ---
    rPc,            \* "core": extractClassMappingsFromCore walks; "regs":
                    \* analyzeFileForHookRegistrations walks; "done"
    rFile,          \* sourceFile, the syntax tree of the file both walk
    rIdx,           \* the top-level statement that visit reaches next
    rMappings,      \* mappings, the ClassMapping list of extractClassMappingsFromCore
    rHookUsage,     \* hookUsage, the GameHookUsage of analyzeFileForHookRegistrations
    \* --- Orchestrator: analyzeGameHookDependencies ---
    pPc,            \* "core", "client", "loop", "done"
    pCore,          \* the syntax tree of core.ts
    pUsage,         \* Object.entries(usage): <<[mappedName, hookUsage]>>
    classMappings,  \* the ClassMapping list read from core.ts
    clientClasses,  \* the candidates parseClientForClasses resolved to
    pIdx,           \* the entry of usage the discovery loop reaches next
    results,        \* the module-level results list
    pConsole,       \* history: the verdict lines written to the console
    pSearches,      \* history: per fresh search, the hook, the classes scored and
                    \* the sorted matches
    pPromise,       \* the promise of analyzeGameHookDependencies: "pending",
                    \* "fulfilled", "rejected"
    pHandler,       \* the top-level handler that ran: "none", "then", "catch"
    \* --- Class Recoverer: parseClientForClasses ---
    cPc,            \* "walk", "resolved"
    cBundle,        \* ast: the top-level statements of the client bundle
    cIdx,           \* the top-level statement the walk reaches next
    classMap,       \* classMap, in insertion order
    currentClass,   \* currentClass; "" is null
    cClasses,       \* classes, the list the promise resolves with
    cWarnings,      \* history: the console.warn calls of the catch block
    \* --- Usage Aggregator: the loops of analyzeGameHookDependencies ---
    aPc,            \* "files", "deps", "done"
    aFiles,         \* files, in the order findTypeScriptFiles returned them
    aIdx,           \* the file, then the dependency, the loop reaches next
    allDependencies,       \* allDependencies
    allHookRegistrations,  \* allHookRegistrations
    aUsage,         \* usage

    \* --- Client Source (obtainGameClient) ---
    gPc,            \* "idle", "version", "asset", "bundle", "storeText",
                    \* "storeVersion", "cached", "return", "done", "failed"
    gIgnoreDB,      \* ignoreDB argument
    gDb,            \* the IndexedDB store: a function from the keys present to their values
    clientLastVersion,  \* local clientLastVersion
    remoteLastVersion,  \* local remoteLastVersion, 0 before the asset JSON is read
    highSpellClient,    \* local highSpellClient: <<>> for "" or undefined, else <<text>>
    gReturned,      \* <<>> before the return, else <<value returned>>
    gFetched,       \* history: the bundle URL was fetched in this run
    gWrites,        \* history: the keys written by setItem in this run, in order
    gStartDb,       \* history: the store when this run started
    gRuns,          \* history: the number of runs started

    \* --- LocationMusicPlayer ---
    isGameReady,    \* this.isGameReady
    currentZone,    \* this.currentZone: <<>> for null, else <<zone>>
    fadeInterval,   \* this.fadeInterval: <<>> for null, else <<the interval and its closure>>
    audioElements,  \* this.audioElements: sound -> [paused, volume]
    musicZones,     \* this.musicZones
    mPlays,         \* the sounds whose play() promise is pending, in call order
    mTimers,        \* the pending waitForGameReady timeouts: the attempt each will make
    mEnable,        \* settings.enable.value
    mWorldReady,    \* the game exposes the main player and its position
    mPosition,      \* CurrentGamePosition of the main player
    mSilenced,      \* history: stop() or handleLoggedOut() ran, and no start()
                    \* or loggedIn() since
    mFrom           \* history: currentZone before the last transitionToZone

scoreVars == <<sPc, sHookName, sHookUsage, sClientClass, sMatch, sPrevMatch, sLastAdd>>
walkVars == <<wPc, wFile, wIdx, scopeTracker, dependencies, wWarnings>>
regVars == <<rPc, rFile, rIdx, rMappings, rHookUsage>>
pipeVars ==
    <<pPc, pCore, pUsage, classMappings, clientClasses, pIdx, results, pConsole, pSearches,
      pPromise, pHandler>>

parseVars == <<cPc, cBundle, cIdx, classMap, currentClass, cClasses, cWarnings>>

aggVars == <<aPc, aFiles, aIdx, allDependencies, allHookRegistrations, aUsage>>

clientVars ==
    <<gPc, gIgnoreDB, gDb, clientLastVersion, remoteLastVersion, highSpellClient, gReturned,
      gFetched, gWrites, gStartDb, gRuns>>

musicVars ==
    <<isGameReady, currentZone, fadeInterval, audioElements, musicZones, mPlays, mTimers,
      mEnable, mWorldReady, mPosition, mSilenced, mFrom>>

vars == <<scoreVars, walkVars, regVars, pipeVars, parseVars, aggVars, clientVars, musicVars>>

\* what a step of one component leaves alone
notScore == <<walkVars, regVars, pipeVars, parseVars, aggVars, clientVars, musicVars>>
notWalk == <<scoreVars, regVars, pipeVars, parseVars, aggVars, clientVars, musicVars>>
notReg == <<scoreVars, walkVars, pipeVars, parseVars, aggVars, clientVars, musicVars>>
notPipe == <<scoreVars, walkVars, regVars, parseVars, aggVars, clientVars, musicVars>>
notParse == <<scoreVars, walkVars, regVars, pipeVars, aggVars, clientVars, musicVars>>
notAgg == <<scoreVars, walkVars, regVars, pipeVars, parseVars, clientVars, musicVars>>
notClient == <<scoreVars, walkVars, regVars, pipeVars, parseVars, aggVars, musicVars>>
notMusic == <<scoreVars, walkVars, regVars, pipeVars, parseVars, aggVars, clientVars>>

(***************************************************************************)
(* Generic helpers                                                         *)
(***************************************************************************)

\* Array.prototype.includes
Includes(seq, x) == \E i \in 1..Len(seq) : seq[i] = x

\* The elements of an array
Range(seq) == {seq[i] : i \in 1..Len(seq)}

\* Array.from(set), for a Set whose insertion order is the model's canonical order
RECURSIVE ArrayFrom(_)
ArrayFrom(S) ==
    IF S = {} THEN <<>>
    ELSE LET x == CHOOSE y \in S : TRUE
         IN  <<x>> \o ArrayFrom(S \ {x})

(***************************************************************************)
(* Bounds of the model                                                     *)
(***************************************************************************)

\* most properties a usage record requires, most methods it requires
MaxReqProps == 2
MaxReqMethods == 1
\* most members (properties and methods, static or not) a candidate gains
MaxMembers == 3
\* most top-level statements of a source file
MaxStmts == 3
\* most registration call statements of a file
MaxCalls == 3
\* most registration call statements of core.ts in a whole run
MaxCoreCalls == 2
\* most hooks of the usage table in a whole run
MaxHooks == 2
\* most candidate classes recovered from the client in a whole run
MaxClasses == 3
\* most top-level statements of the client bundle
MaxDecls == 3
\* most source files of a run of the aggregation
MaxFiles == 3
\* largest client version the asset server announces
MaxVersion == 2
\* most runs of obtainGameClient against one store
MaxRuns == 3
\* waitForGameReady gives up at this attempt
MaxAttempts == 2
\* most waitForGameReady timeouts pending at once
MaxTimers == 2
\* the steps of a fade
FadeSteps == 2
\* most play() promises pending at once
MaxPlays == 2

(***************************************************************************)
(* Names                                                                   *)
(***************************************************************************)

HookNames == {"ChatManager", "Foo"}
PropNames == {"Instance", "_friends", "Manager", "hp"}
MethodNames == {"sendMessage", "update"}

(***************************************************************************)
(* The curated table, knownClassInfo.  An absent list is the empty list:   *)
(* the code skips both.                                                    *)
(***************************************************************************)

knownClassInfo ==
    << [className |-> "ChatManager",
        properties |-> <<"Instance", "_friends">>,
        staticProperties |-> <<"Instance">>,
        methods |-> <<>>,
        staticMethods |-> <<>>] >>

\* knownClassInfo.find(info => info.className === hookName): <<>> or <<info>>
FindKnownInfo(hookName) ==
    LET hits == SelectSeq(knownClassInfo, LAMBDA info : info.className = hookName)
    IN  IF hits = <<>> THEN <<>> ELSE <<Head(hits)>>

(***************************************************************************)
(* ClientClass and the updates the class recoverer makes to one            *)
(***************************************************************************)

NewClientClass(name) ==
    [name |-> name, properties |-> {}, methods |-> {},
     staticProperties |-> {}, staticMethods |-> {},
     hasInstance |-> FALSE, hasManager |-> FALSE]

\* classMap.get(currentClass).properties.add(propertyName)
AddProperty(c, p) == [c EXCEPT !.properties = @ \cup {p}]

\* clientClass.methods.add(methodName)
AddMethod(c, m) == [c EXCEPT !.methods = @ \cup {m}]

\* `ClassName.property = value`, or a static accessor
AddStaticProperty(c, p) ==
    [c EXCEPT !.staticProperties = @ \cup {p},
              !.hasInstance = @ \/ (p = "Instance"),
              !.hasManager = @ \/ (p = "Manager")]

\* The mutant of AddStaticMethod: a static method named Instance sets the
\* flag and is not added to the static properties.
AddStaticMethodFlagOnly(c, m) ==
    [c EXCEPT !.staticMethods = @ \cup {m},
              !.hasInstance = @ \/ (m = "Instance")]

\* a static method definition
AddStaticMethod(c, m) ==
    [c EXCEPT !.staticMethods = @ \cup {m},
              !.hasInstance = @ \/ (m = "Instance"),
              !.staticProperties = IF m = "Instance" THEN @ \cup {"Instance"} ELSE @]

MemberCount(c) ==
    Cardinality(c.properties) + Cardinality(c.methods)
    + Cardinality(c.staticProperties) + Cardinality(c.staticMethods)

(***************************************************************************)
(* calculateMatchScore                                                     *)
(***************************************************************************)

UsagePropertyScore == 2
UsageMethodScore == 1
KnownPropertyScore == 3
KnownStaticPropertyScore == 3
KnownMethodScore == 2
KnownStaticMethodScore == 2
InstanceBonus == 5
ManagerBonus == 3

HasProperty(c, p) == p \in c.properties \/ p \in c.staticProperties
HasMethod(c, m) == m \in c.methods \/ m \in c.staticMethods

\* for (const prop of requiredProperties) ...
RECURSIVE RequiredPropertiesLoop(_, _, _)
RequiredPropertiesLoop(acc, todo, c) ==
    IF todo = <<>> THEN acc
    ELSE LET prop == Head(todo)
             nxt == IF HasProperty(c, prop)
                    THEN [acc EXCEPT !.matchedProperties = Append(@, prop),
                                     !.score = @ + UsagePropertyScore]
                    ELSE [acc EXCEPT !.missingProperties = Append(@, prop)]
         IN  RequiredPropertiesLoop(nxt, Tail(todo), c)

\* for (const method of requiredMethods) ...
RECURSIVE RequiredMethodsLoop(_, _, _)
RequiredMethodsLoop(acc, todo, c) ==
    IF todo = <<>> THEN acc
    ELSE LET method == Head(todo)
             nxt == IF HasMethod(c, method)
                    THEN [acc EXCEPT !.matchedMethods = Append(@, method),
                                     !.score = @ + UsageMethodScore]
                    ELSE [acc EXCEPT !.missingMethods = Append(@, method)]
         IN  RequiredMethodsLoop(nxt, Tail(todo), c)

\* The mutant of KnownPropertyStep: the curated weight is given only to a
\* property that the usage-derived loop did not match already.
KnownPropertyStepOnlyNew(acc, prop, present, required, weight) ==
    IF present
    THEN IF ~Includes(acc.matchedProperties, prop)
         THEN [acc EXCEPT !.matchedProperties = Append(@, prop),
                          !.score = @ + weight]
         ELSE acc
    ELSE IF ~Includes(required, prop)
         THEN [acc EXCEPT !.missingProperties = Append(@, prop)]
         ELSE acc

\* The body of the two loops over curated properties: `present` is the
\* loop's own test of the candidate, `required` is requiredProperties,
\* `weight` the loop's increment.
KnownPropertyStep(acc, prop, present, required, weight) ==
    IF present
    THEN [acc EXCEPT !.matchedProperties =
                         IF ~Includes(@, prop) THEN Append(@, prop) ELSE @,
                     !.score = @ + weight]
    ELSE IF ~Includes(required, prop)
         THEN [acc EXCEPT !.missingProperties = Append(@, prop)]
         ELSE acc

\* for (const prop of knownInfo.properties) ...
RECURSIVE KnownPropertiesLoop(_, _, _, _)
KnownPropertiesLoop(acc, todo, c, required) ==
    IF todo = <<>> THEN acc
    ELSE KnownPropertiesLoop(
             KnownPropertyStep(acc, Head(todo), HasProperty(c, Head(todo)), required,
                               KnownPropertyScore),
             Tail(todo), c, required)

\* for (const prop of knownInfo.staticProperties) ...
RECURSIVE KnownStaticPropertiesLoop(_, _, _, _)
KnownStaticPropertiesLoop(acc, todo, c, required) ==
    IF todo = <<>> THEN acc
    ELSE KnownStaticPropertiesLoop(
             KnownPropertyStep(acc, Head(todo), Head(todo) \in c.staticProperties, required,
                               KnownStaticPropertyScore),
             Tail(todo), c, required)

\* The body of the two loops over curated methods.
KnownMethodStep(acc, method, present, required) ==
    IF present
    THEN [acc EXCEPT !.matchedMethods =
                         IF ~Includes(@, method) THEN Append(@, method) ELSE @,
                     !.score = @ + KnownMethodScore]
    ELSE IF ~Includes(required, method)
         THEN [acc EXCEPT !.missingMethods = Append(@, method)]
         ELSE acc

\* for (const method of knownInfo.methods) ...
RECURSIVE KnownMethodsLoop(_, _, _, _)
KnownMethodsLoop(acc, todo, c, required) ==
    IF todo = <<>> THEN acc
    ELSE KnownMethodsLoop(
             KnownMethodStep(acc, Head(todo), HasMethod(c, Head(todo)), required),
             Tail(todo), c, required)

\* for (const method of knownInfo.staticMethods) ...
RECURSIVE KnownStaticMethodsLoop(_, _, _, _)
KnownStaticMethodsLoop(acc, todo, c, required) ==
    IF todo = <<>> THEN acc
    ELSE KnownStaticMethodsLoop(
             KnownMethodStep(acc, Head(todo), Head(todo) \in c.staticMethods, required),
             Tail(todo), c, required)

\* Bonus points for common patterns
PatternBonus(requiredProperties, c) ==
    (IF Includes(requiredProperties, "Instance") /\ c.hasInstance THEN InstanceBonus ELSE 0)
    + (IF Includes(requiredProperties, "Manager") /\ c.hasManager THEN ManagerBonus ELSE 0)

calculateMatchScore(hookUsage, clientClass, hookName) ==
    LET requiredProperties == hookUsage.properties
        requiredMethods == hookUsage.methods
        acc0 == [score |-> 0, matchedProperties |-> <<>>, matchedMethods |-> <<>>,
                 missingProperties |-> <<>>, missingMethods |-> <<>>]
        acc1 == RequiredPropertiesLoop(acc0, requiredProperties, clientClass)
        acc2 == RequiredMethodsLoop(acc1, requiredMethods, clientClass)
        knownInfo == FindKnownInfo(hookName)
        acc3 == IF knownInfo = <<>> THEN acc2
                ELSE LET k == knownInfo[1]
                         a == KnownPropertiesLoop(acc2, k.properties, clientClass,
                                                  requiredProperties)
                         b == KnownStaticPropertiesLoop(a, k.staticProperties, clientClass,
                                                        requiredProperties)
                         m == KnownMethodsLoop(b, k.methods, clientClass, requiredMethods)
                     IN  KnownStaticMethodsLoop(m, k.staticMethods, clientClass,
                                                requiredMethods)
    IN  [hookName |-> hookName,
         clientClassName |-> clientClass.name,
         matchScore |-> acc3.score + PatternBonus(requiredProperties, clientClass),
         matchedProperties |-> acc3.matchedProperties,
         matchedMethods |-> acc3.matchedMethods,
         missingProperties |-> acc3.missingProperties,
         missingMethods |-> acc3.missingMethods]

(***************************************************************************)
(* SpecScore: a candidate under recovery gains members one at a time and   *)
(* is scored after each.                                                   *)
(***************************************************************************)

NoAdd == [kind |-> "none", name |-> "", had |-> FALSE]

ScoreIdle ==
    /\ sPc = "idle"
    /\ sHookName = ""
    /\ sHookUsage = [properties |-> <<>>, methods |-> <<>>]
    /\ sClientClass = NewClientClass("")
    /\ sMatch = <<>>
    /\ sPrevMatch = <<>>
    /\ sLastAdd = NoAdd

ScoreInit ==
    /\ sPc = "score"
    /\ sHookName \in HookNames
    /\ \E P \in SUBSET PropNames, M \in SUBSET MethodNames :
          /\ Cardinality(P) <= MaxReqProps
          /\ Cardinality(M) <= MaxReqMethods
          /\ sHookUsage = [properties |-> ArrayFrom(P), methods |-> ArrayFrom(M)]
    /\ sClientClass = NewClientClass("CM")
    /\ sMatch = <<>>
    /\ sPrevMatch = <<>>
    /\ sLastAdd = NoAdd

\* const match = calculateMatchScore(hookUsage, clientClass, mappedName)
Score ==
    /\ sPc = "score"
    /\ sMatch' = <<calculateMatchScore(sHookUsage, sClientClass, sHookName)>>
    /\ sPrevMatch' = sMatch
    /\ sPc' = "mutate"
    /\ UNCHANGED <<sHookName, sHookUsage, sClientClass, sLastAdd>>
    /\ UNCHANGED notScore

Gain(kind, name, had, c) ==
    /\ sPc = "mutate"
    /\ MemberCount(sClientClass) < MaxMembers
    /\ sClientClass' = c
    /\ sLastAdd' = [kind |-> kind, name |-> name, had |-> had]
    /\ sPc' = "score"
    /\ UNCHANGED <<sHookName, sHookUsage, sMatch, sPrevMatch>>
    /\ UNCHANGED notScore

GainProperty ==
    \E p \in PropNames \ sClientClass.properties :
        Gain("property", p, HasProperty(sClientClass, p), AddProperty(sClientClass, p))

GainStaticProperty ==
    \E p \in PropNames \ sClientClass.staticProperties :
        Gain("staticProperty", p, HasProperty(sClientClass, p),
             AddStaticProperty(sClientClass, p))

GainMethod ==
    \E m \in MethodNames \ sClientClass.methods :
        Gain("method", m, HasMethod(sClientClass, m), AddMethod(sClientClass, m))

GainStaticMethod ==
    \E m \in MethodNames \ sClientClass.staticMethods :
        Gain("staticMethod", m, HasMethod(sClientClass, m), AddStaticMethod(sClientClass, m))

ScoreNext == Score \/ GainProperty \/ GainStaticProperty \/ GainMethod \/ GainStaticMethod

(***************************************************************************)
(* Syntax trees.  A node is [kind, text, kids]; kids are in the order in   *)
(* which ts.forEachChild visits them.                                      *)
(***************************************************************************)

Node(kind, text, kids) == [kind |-> kind, text |-> text, kids |-> kids]

Identifier(text) == Node("Identifier", text, <<>>)
ThisKeyword == Node("ThisKeyword", "", <<>>)
\* expression.name
PropertyAccess(expression, name) ==
    Node("PropertyAccessExpression", "", <<expression, Identifier(name)>>)
\* expression(arguments)
Call(expression, arguments) == Node("CallExpression", "", <<expression>> \o arguments)
ExpressionStatement(expression) == Node("ExpressionStatement", "", <<expression>>)
\* const name = initializer;   name is an Identifier or a binding pattern
VariableStatement(name, initializer) ==
    Node("VariableStatement", "",
         <<Node("VariableDeclarationList", "",
                <<Node("VariableDeclaration", "", <<name, initializer>>)>>)>>)
\* { a }
ObjectBindingPattern(name) ==
    Node("ObjectBindingPattern", "", <<Node("BindingElement", "", <<Identifier(name)>>)>>)
Block(statements) == Node("Block", "", statements)
\* function name() { statements }
FunctionDeclaration(name, statements) ==
    Node("FunctionDeclaration", "", <<Identifier(name), Block(statements)>>)
SourceFile(statements) == Node("SourceFile", "", statements)

\* a.b.c ... rooted at `root`
RECURSIVE Dotted(_, _)
Dotted(root, names) ==
    IF names = <<>> THEN root
    ELSE PropertyAccess(Dotted(root, SubSeq(names, 1, Len(names) - 1)), names[Len(names)])

\* node.name of a PropertyAccessExpression, node.expression, node.initializer
NameOf(node) == node.kids[2]
ExpressionOf(node) == node.kids[1]
HasInitializer(node) == Len(node.kids) >= 2
InitializerOf(node) == node.kids[2]

(***************************************************************************)
(* extractPropertyChain, isGameHooksAccess, getHookNameAndProperties.      *)
(* A chain segment is a string that ends in zero or more call markers      *)
(* "()": [name, calls].                                                    *)
(***************************************************************************)

Seg(name, calls) == [name |-> name, calls |-> calls]
Plain(name) == Seg(name, 0)

\* chain[chain.length - 1] += '()'   (on an empty array this sets no element)
MarkCall(chain) ==
    IF chain = <<>> THEN chain
    ELSE [chain EXCEPT ![Len(chain)].calls = @ + 1]

RECURSIVE extractPropertyChain(_)
extractPropertyChain(node) ==
    CASE node.kind = "PropertyAccessExpression" ->
             Append(extractPropertyChain(ExpressionOf(node)), Plain(NameOf(node).text))
      [] node.kind = "Identifier" -> <<Plain(node.text)>>
      [] node.kind = "CallExpression" -> MarkCall(extractPropertyChain(ExpressionOf(node)))
      [] OTHER -> <<>>

\* the index (from 1) of the hook name in a chain, 0 when no entry pattern matches
HookIndex(chain) ==
    IF Len(chain) >= 4 /\ chain[1] = Plain("document") /\ chain[2] = Plain("highlite")
       /\ chain[3] = Plain("gameHooks") THEN 4
    ELSE IF Len(chain) >= 3 /\ chain[1] = Plain("highlite") /\ chain[2] = Plain("gameHooks")
    THEN 3
    ELSE IF Len(chain) >= 3 /\ chain[1] = Plain("this") /\ chain[2] = Plain("gameHooks")
    THEN 3
    ELSE IF Len(chain) >= 2 /\ chain[1] = Plain("gameHooks") THEN 2
    ELSE 0

isGameHooksAccess(chain) ==
    \/ Len(chain) >= 4 /\ chain[1] = Plain("document") /\ chain[2] = Plain("highlite")
       /\ chain[3] = Plain("gameHooks")
    \/ Len(chain) >= 3 /\ chain[1] = Plain("highlite") /\ chain[2] = Plain("gameHooks")
    \/ Len(chain) >= 3 /\ chain[1] = Plain("this") /\ chain[2] = Plain("gameHooks")
    \/ Len(chain) >= 2 /\ chain[1] = Plain("gameHooks")

EmptyString == Plain("")

getHookNameAndProperties(chain) ==
    LET startIndex == HookIndex(chain)
    IN  IF startIndex = 0 \/ startIndex > Len(chain)
        THEN [hookName |-> EmptyString, properties |-> <<>>]
        ELSE [hookName |-> chain[startIndex],
              properties |-> SubSeq(chain, startIndex + 1, Len(chain))]

(***************************************************************************)
(* The scope tracker                                                       *)
(***************************************************************************)

\* currentScope: 0 is 'global', n is `scope_${n}`
GlobalScope == 0

\* new Map()
EmptyMap == [k \in {} |-> k]
\* map.set(key, value)
MapSet(map, key, value) ==
    [k \in DOMAIN map \cup {key} |-> IF k = key THEN value ELSE map[k]]

NewScopeTracker ==
    [currentScope |-> GlobalScope, scopeCounter |-> 0, variableReferences |-> EmptyMap]

enterScope(tracker) ==
    [tracker EXCEPT !.scopeCounter = @ + 1, !.currentScope = tracker.scopeCounter + 1]

\* The mutant of exitScope: the aliases of the scope that closes are kept.
exitScopeKeepAliases(tracker) ==
    [tracker EXCEPT !.currentScope = GlobalScope]

exitScope(tracker) ==
    LET refs == tracker.variableReferences
        keysToRemove == {key \in DOMAIN refs : refs[key].scope = tracker.currentScope}
    IN  [tracker EXCEPT
            !.variableReferences = [k \in DOMAIN refs \ keysToRemove |-> refs[k]],
            !.currentScope = GlobalScope]

IsScopeNode(node) ==
    node.kind \in {"FunctionDeclaration", "FunctionExpression", "ArrowFunction", "Block"}

(***************************************************************************)
(* visit, of analyzeFileForGameHooks.  st is [tracker, deps]; line is the  *)
(* line of the node (every top-level statement is on a line of its own).   *)
(***************************************************************************)

\* sourceVariable is "" where the code leaves it undefined
Dependency(hookName, chain, line, isDirect, sourceVariable) ==
    [hookName |-> hookName, propertyChain |-> chain, line |-> line,
     isDirect |-> isDirect, sourceVariable |-> sourceVariable]

\* a variable declaration whose initializer is a game hooks access
DeclarationStep(node, line, st) ==
    IF node.kind = "VariableDeclaration" /\ HasInitializer(node)
       /\ node.kids[1].kind = "Identifier"
    THEN LET variableName == node.kids[1].text
             chain == extractPropertyChain(InitializerOf(node))
             hp == getHookNameAndProperties(chain)
         IN  IF isGameHooksAccess(chain) /\ hp.hookName # EmptyString
             THEN [tracker |->
                       [st.tracker EXCEPT !.variableReferences =
                           MapSet(@, variableName,
                                  [variableName |-> variableName,
                                   hookName |-> hp.hookName,
                                   propertyChain |-> hp.properties,
                                   declarationLine |-> line,
                                   scope |-> st.tracker.currentScope])],
                   deps |-> Append(st.deps,
                                   Dependency(hp.hookName, hp.properties, line, TRUE, ""))]
             ELSE st
    ELSE st

\* an access through a tracked variable: `variableName.segment`
IndirectStep(variableName, segment, line, st) ==
    LET refs == st.tracker.variableReferences
    IN  IF variableName \in DOMAIN refs
        THEN [st EXCEPT !.deps =
                 Append(@, Dependency(refs[variableName].hookName,
                                      Append(refs[variableName].propertyChain, segment),
                                      line, FALSE, variableName))]
        ELSE st

\* a property access or call expression; isInitializer: the node is the
\* initializer of the variable declaration that is its parent
AccessStep(node, isInitializer, line, st) ==
    IF node.kind \notin {"PropertyAccessExpression", "CallExpression"} THEN st
    ELSE LET chain == extractPropertyChain(node)
             hp == getHookNameAndProperties(chain)
         IN  IF isGameHooksAccess(chain)
             THEN IF hp.hookName # EmptyString /\ ~isInitializer
                  THEN [st EXCEPT !.deps =
                           Append(@, Dependency(hp.hookName, hp.properties, line, TRUE, ""))]
                  ELSE st
             ELSE IF node.kind = "PropertyAccessExpression"
             THEN IF ExpressionOf(node).kind = "Identifier"
                  THEN IndirectStep(ExpressionOf(node).text, Plain(NameOf(node).text), line, st)
                  ELSE st
             ELSE \* a call expression
                  IF ExpressionOf(node).kind = "PropertyAccessExpression"
                  THEN IF ExpressionOf(ExpressionOf(node)).kind = "Identifier"
                       THEN IndirectStep(ExpressionOf(ExpressionOf(node)).text,
                                         Seg(NameOf(ExpressionOf(node)).text, 1), line, st)
                       ELSE st
                  ELSE IF ExpressionOf(node).kind = "Identifier"
                  THEN IndirectStep(ExpressionOf(node).text, Seg("", 1), line, st)
                  ELSE st

RECURSIVE visit(_, _, _, _)
RECURSIVE forEachChild(_, _, _, _)

visit(node, isInitializer, line, st) ==
    LET s1 == IF IsScopeNode(node) THEN [st EXCEPT !.tracker = enterScope(@)] ELSE st
        s2 == DeclarationStep(node, line, s1)
        s3 == AccessStep(node, isInitializer, line, s2)
        s4 == forEachChild(node, 1, line, s3)
    IN  IF IsScopeNode(node) THEN [s4 EXCEPT !.tracker = exitScope(@)] ELSE s4

\* ts.forEachChild(node, visit), from child i on
forEachChild(node, i, line, st) ==
    IF i > Len(node.kids) THEN st
    ELSE forEachChild(node, i + 1, line,
                      visit(node.kids[i],
                            node.kind = "VariableDeclaration" /\ HasInitializer(node) /\ i = 2,
                            line, st))

(***************************************************************************)
(* The source files of the model: up to MaxStmts statements, each one of   *)
(* the shapes below.                                                       *)
(***************************************************************************)

\* gameHooks.Foo.bar
HookAccess == Dotted(Identifier("gameHooks"), <<"Foo", "bar">>)

\* const x = gameHooks.Foo.bar;
ConstX == VariableStatement(Identifier("x"), HookAccess)
\* x.baz;
UseX == ExpressionStatement(PropertyAccess(Identifier("x"), "baz"))
\* function f(){ const x = gameHooks.Foo.bar; }
FuncConstX == FunctionDeclaration("f", <<ConstX>>)
\* function g(){ const x = gameHooks.Foo.bar; {} }
FuncConstXBlock == FunctionDeclaration("g", <<ConstX, Block(<<>>)>>)
\* function h(){}
FuncEmpty == FunctionDeclaration("h", <<>>)
\* the four entry patterns, each as an expression statement
DirectDocument ==
    ExpressionStatement(
        Dotted(Identifier("document"), <<"highlite", "gameHooks", "Foo", "bar">>))
DirectHighlite ==
    ExpressionStatement(Dotted(Identifier("highlite"), <<"gameHooks", "Foo", "bar">>))
DirectThis == ExpressionStatement(Dotted(ThisKeyword, <<"gameHooks", "Foo", "bar">>))
DirectBare == ExpressionStatement(HookAccess)
\* const { a } = gameHooks.Foo.bar;
ConstDestructured == VariableStatement(ObjectBindingPattern("a"), HookAccess)
\* gameHooks.Foo.bar();
DirectCall == ExpressionStatement(Call(HookAccess, <<>>))

Statements ==
    {ConstX, UseX, FuncConstX, FuncConstXBlock, FuncEmpty, DirectDocument, DirectHighlite,
     DirectThis, DirectBare, ConstDestructured, DirectCall}

SourceFiles ==
    {SourceFile(stmts) : stmts \in UNION {[1..n -> Statements] : n \in 0..MaxStmts}}

(***************************************************************************)
(* SpecWalk: analyzeFileForGameHooks walks one file; a step is visit on    *)
(* the next top-level statement, its whole subtree included.               *)
(***************************************************************************)

WalkIdle ==
    /\ wPc = "idle"
    /\ wFile = SourceFile(<<>>)
    /\ wIdx = 0
    /\ scopeTracker = NewScopeTracker
    /\ dependencies = <<>>
    /\ wWarnings = 0

WalkInit ==
    /\ wPc = "walk"
    /\ wFile \in SourceFiles
    /\ wIdx = 1
    /\ scopeTracker = NewScopeTracker
    /\ dependencies = <<>>
    /\ wWarnings = 0

\* visit(statement), called by ts.forEachChild(sourceFile, visit)
VisitStatement ==
    /\ wPc = "walk"
    /\ wIdx <= Len(wFile.kids)
    /\ LET st == visit(wFile.kids[wIdx], FALSE, wIdx,
                       [tracker |-> scopeTracker, deps |-> dependencies])
       IN  /\ scopeTracker' = st.tracker
           /\ dependencies' = st.deps
    /\ wIdx' = wIdx + 1
    /\ UNCHANGED <<wPc, wFile, wWarnings>>
    /\ UNCHANGED notWalk

\* return dependencies
WalkReturn ==
    /\ wPc = "walk"
    /\ wIdx > Len(wFile.kids)
    /\ wPc' = "done"
    /\ UNCHANGED <<wFile, wIdx, scopeTracker, dependencies, wWarnings>>
    /\ UNCHANGED notWalk

\* readFileSync, createSourceFile or visit throws: the catch block warns and
\* the function returns dependencies as it is
WalkThrows ==
    /\ wPc = "walk"
    /\ wWarnings' = wWarnings + 1
    /\ wPc' = "failed"
    /\ UNCHANGED <<wFile, wIdx, scopeTracker, dependencies>>
    /\ UNCHANGED notWalk

WalkNext == VisitStatement \/ WalkReturn \/ WalkThrows

(***************************************************************************)
(* Hook Registration Extractor: extractClassMappingsFromCore and           *)
(* analyzeFileForHookRegistrations                                         *)
(***************************************************************************)

StringLiteral(text) == Node("StringLiteral", text, <<>>)

\* node.arguments
ArgumentsOf(node) == SubSeq(node.kids, 2, Len(node.kids))

\* ts.isCallExpression(node) && ts.isPropertyAccessExpression(node.expression)
\* && node.expression.name.text === name && node.arguments.length >= 2
IsRegistrationCall(node, name) ==
    /\ node.kind = "CallExpression"
    /\ ExpressionOf(node).kind = "PropertyAccessExpression"
    /\ NameOf(ExpressionOf(node)).text = name
    /\ Len(ArgumentsOf(node)) >= 2

\* ts.isStringLiteral of the first two arguments
HasLiteralArguments(node) ==
    /\ ArgumentsOf(node)[1].kind = "StringLiteral"
    /\ ArgumentsOf(node)[2].kind = "StringLiteral"

\* filePath, the path of the file being read
FilePath == "core.ts"

ClassMapping(clientClassName, hookName, methods) ==
    [clientClassName |-> clientClassName, hookName |-> hookName, methods |-> methods,
     file |-> FilePath]

\* mappings.find(m => m.hookName === hookName), as an index; 0: not found
FindMapping(list, hookName) ==
    LET hits == {k \in 1..Len(list) : list[k].hookName = hookName}
    IN  IF hits = {} THEN 0 ELSE CHOOSE k \in hits : \A j \in hits : k <= j

\* the registerClass branch of visit
RegisterClassStep(list, node) ==
    IF IsRegistrationCall(node, "registerClass") /\ HasLiteralArguments(node)
    THEN Append(list, ClassMapping(ArgumentsOf(node)[1].text, ArgumentsOf(node)[2].text, {}))
    ELSE list

\* The mutant of AddHookMethod: the method set is replaced, not extended.
AddHookMethodReplacing(list, hookName, methodName) ==
    LET k == FindMapping(list, hookName)
    IN  IF k = 0
        THEN Append(list, ClassMapping("UNKNOWN", hookName, {methodName}))
        ELSE [list EXCEPT ![k].methods = {methodName}]

\* find the mapping of the hook, or push a placeholder; add the method
AddHookMethod(list, hookName, methodName) ==
    LET k == FindMapping(list, hookName)
    IN  IF k = 0
        THEN Append(list, ClassMapping("UNKNOWN", hookName, {methodName}))
        ELSE [list EXCEPT ![k].methods = @ \cup {methodName}]

\* the registerClassHook and registerClassOverrideHook branches of visit
RegisterHookStep(list, node, callee) ==
    IF IsRegistrationCall(node, callee) /\ HasLiteralArguments(node)
    THEN AddHookMethod(list, ArgumentsOf(node)[1].text, ArgumentsOf(node)[2].text)
    ELSE list

RECURSIVE visitCore(_, _)
RECURSIVE forEachChildCore(_, _, _)

\* visit of extractClassMappingsFromCore
visitCore(node, list) ==
    LET l1 == RegisterClassStep(list, node)
        l2 == RegisterHookStep(l1, node, "registerClassHook")
        l3 == RegisterHookStep(l2, node, "registerClassOverrideHook")
    IN  forEachChildCore(node, 1, l3)

forEachChildCore(node, i, list) ==
    IF i > Len(node.kids) THEN list
    ELSE forEachChildCore(node, i + 1, visitCore(node.kids[i], list))

\* hookUsage[className] is created if absent; the method and the file are added
AddRegistration(usage, className, methodName) ==
    MapSet(usage, className,
           IF className \in DOMAIN usage
           THEN [usage[className] EXCEPT !.methods = @ \cup {methodName},
                                         !.files = @ \cup {FilePath}]
           ELSE [properties |-> {}, methods |-> {methodName}, fullExpressions |-> {},
                 files |-> {FilePath},
                 fromDirectAccess |-> FALSE, fromHookRegistration |-> TRUE])

\* the two branches of visit of analyzeFileForHookRegistrations
RegistrationStep(usage, node, callee) ==
    IF IsRegistrationCall(node, callee) /\ HasLiteralArguments(node)
    THEN AddRegistration(usage, ArgumentsOf(node)[1].text, ArgumentsOf(node)[2].text)
    ELSE usage

RECURSIVE visitRegistrations(_, _)
RECURSIVE forEachChildRegistrations(_, _, _)

\* visit of analyzeFileForHookRegistrations
visitRegistrations(node, usage) ==
    LET u1 == RegistrationStep(usage, node, "registerClassHook")
        u2 == RegistrationStep(u1, node, "registerClassOverrideHook")
    IN  forEachChildRegistrations(node, 1, u2)

forEachChildRegistrations(node, i, usage) ==
    IF i > Len(node.kids) THEN usage
    ELSE forEachChildRegistrations(node, i + 1, visitRegistrations(node.kids[i], usage))

\* this.hookManager.<callee>(arguments);
HookManagerCall(callee, arguments) ==
    ExpressionStatement(Call(Dotted(ThisKeyword, <<"hookManager", callee>>), arguments))

\* this.hookManager.registerClass("ab", "Foo");
RegisterAbFoo == HookManagerCall("registerClass", <<StringLiteral("ab"), StringLiteral("Foo")>>)
\* this.hookManager.registerClass("old", "Foo");
RegisterOldFoo ==
    HookManagerCall("registerClass", <<StringLiteral("old"), StringLiteral("Foo")>>)
\* this.hookManager.registerClass("CM", "ChatManager");
RegisterCmChat ==
    HookManagerCall("registerClass", <<StringLiteral("CM"), StringLiteral("ChatManager")>>)
\* this.hookManager.registerClassHook("Foo", "m1");
HookFooM1 == HookManagerCall("registerClassHook", <<StringLiteral("Foo"), StringLiteral("m1")>>)
\* this.hookManager.registerClassOverrideHook("Foo", "m2");
OverrideFooM2 ==
    HookManagerCall("registerClassOverrideHook", <<StringLiteral("Foo"), StringLiteral("m2")>>)
\* this.hookManager.registerClassHook("ChatManager", "m1");
HookChatM1 ==
    HookManagerCall("registerClassHook", <<StringLiteral("ChatManager"), StringLiteral("m1")>>)
\* this.hookManager.registerClassHook(name, "m1");
HookNonLiteral ==
    HookManagerCall("registerClassHook", <<Identifier("name"), StringLiteral("m1")>>)
\* this.hookManager.registerClass("ab");
RegisterOneArgument == HookManagerCall("registerClass", <<StringLiteral("ab")>>)
\* registerClassHook("Foo", "m3");
HookBareCallee ==
    ExpressionStatement(Call(Identifier("registerClassHook"),
                             <<StringLiteral("Foo"), StringLiteral("m3")>>))

RegistrationStatements ==
    {RegisterAbFoo, RegisterOldFoo, RegisterCmChat, HookFooM1, OverrideFooM2, HookChatM1,
     HookNonLiteral, RegisterOneArgument, HookBareCallee}

RegistrationFiles ==
    {SourceFile(stmts) :
        stmts \in UNION {[1..n -> RegistrationStatements] : n \in 0..MaxCalls}}

\* mappings after each of the first n top-level statements of the file
RECURSIVE CoreMappingsAfter(_, _)
CoreMappingsAfter(file, n) ==
    IF n = 0 THEN << <<>> >>
    ELSE LET before == CoreMappingsAfter(file, n - 1)
         IN  Append(before, visitCore(file.kids[n], before[n]))

\* extractClassMappingsFromCore on a whole file
extractClassMappingsFromCore(file) ==
    CoreMappingsAfter(file, Len(file.kids))[Len(file.kids) + 1]

\* hookUsage after each of the first n top-level statements of the file
RECURSIVE HookRegistrationsAfter(_, _)
HookRegistrationsAfter(file, n) ==
    IF n = 0 THEN <<EmptyMap>>
    ELSE LET before == HookRegistrationsAfter(file, n - 1)
         IN  Append(before, visitRegistrations(file.kids[n], before[n]))

\* analyzeFileForHookRegistrations on a whole file
analyzeFileForHookRegistrations(file) ==
    HookRegistrationsAfter(file, Len(file.kids))[Len(file.kids) + 1]

(***************************************************************************)
(* SpecReg: both extractors walk one file, one top-level statement a step  *)
(***************************************************************************)

RegIdle ==
    /\ rPc = "idle"
    /\ rFile = SourceFile(<<>>)
    /\ rIdx = 0
    /\ rMappings = <<>>
    /\ rHookUsage = EmptyMap

RegInit ==
    /\ rPc = "core"
    /\ rFile \in RegistrationFiles
    /\ rIdx = 1
    /\ rMappings = <<>>
    /\ rHookUsage = EmptyMap

\* extractClassMappingsFromCore: visit on the next statement
VisitCoreStatement ==
    /\ rPc = "core"
    /\ rIdx <= Len(rFile.kids)
    /\ rMappings' = visitCore(rFile.kids[rIdx], rMappings)
    /\ rIdx' = rIdx + 1
    /\ UNCHANGED <<rPc, rFile, rHookUsage>>
    /\ UNCHANGED notReg

\* extractClassMappingsFromCore returns mappings
CoreReturn ==
    /\ rPc = "core"
    /\ rIdx > Len(rFile.kids)
    /\ rPc' = "regs"
    /\ rIdx' = 1
    /\ UNCHANGED <<rFile, rMappings, rHookUsage>>
    /\ UNCHANGED notReg

\* analyzeFileForHookRegistrations: visit on the next statement
VisitRegistrationStatement ==
    /\ rPc = "regs"
    /\ rIdx <= Len(rFile.kids)
    /\ rHookUsage' = visitRegistrations(rFile.kids[rIdx], rHookUsage)
    /\ rIdx' = rIdx + 1
    /\ UNCHANGED <<rPc, rFile, rMappings>>
    /\ UNCHANGED notReg

\* analyzeFileForHookRegistrations returns hookUsage
RegistrationsReturn ==
    /\ rPc = "regs"
    /\ rIdx > Len(rFile.kids)
    /\ rPc' = "done"
    /\ UNCHANGED <<rFile, rIdx, rMappings, rHookUsage>>
    /\ UNCHANGED notReg

RegNext ==
    VisitCoreStatement \/ CoreReturn \/ VisitRegistrationStatement \/ RegistrationsReturn

(***************************************************************************)
(* Class Recoverer: parseClientForClasses                                  *)
(***************************************************************************)

AsciiLetters ==
    {"a", "b", "c", "d", "e", "f", "g", "h", "i", "j", "k", "l", "m",
     "n", "o", "p", "q", "r", "s", "t", "u", "v", "w", "x", "y", "z",
     "A", "B", "C", "D", "E", "F", "G", "H", "I", "J", "K", "L", "M",
     "N", "O", "P", "Q", "R", "S", "T", "U", "V", "W", "X", "Y", "Z"}

\* the identifiers the bundles declare and assign to, and their characters
Spelling ==
    [ab |-> <<"a", "b">>, CM |-> <<"C", "M">>, abcd |-> <<"a", "b", "c", "d">>,
     a1 |-> <<"a", "1">>]

BundleNames == DOMAIN Spelling

\* /^[A-Za-z]{1,3}$/.test(className)
MatchesLetterPattern(chars) ==
    /\ Len(chars) >= 1
    /\ Len(chars) <= 3
    /\ \A i \in 1..Len(chars) : chars[i] \in AsciiLetters

\* The mutant of IsCandidateName: only the length is looked at.
IsCandidateNameByLength(className) == Len(Spelling[className]) <= 3

\* className.length <= 3 && /^[A-Za-z]{1,3}$/.test(className)
IsCandidateName(className) ==
    Len(Spelling[className]) <= 3 /\ MatchesLetterPattern(Spelling[className])

\* a node of the acorn syntax tree
EsNode(type, name, object, static, kind, init, kids) ==
    [type |-> type, name |-> name, object |-> object, static |-> static, kind |-> kind,
     init |-> init, kids |-> kids]

\* class <name> { <members> }
EsClassDeclaration(name, members) ==
    EsNode("ClassDeclaration", name, "", FALSE, "", "", members)
\* function <name>() { <body> }
EsFunctionDeclaration(name, body) ==
    EsNode("FunctionDeclaration", name, "", FALSE, "", "", body)
\* var <name> = function () { <body> }, or var <name> = 1 with init "Literal"
EsVariableDeclarator(name, init, body) ==
    EsNode("VariableDeclarator", name, "", FALSE, "", init, body)
\* [static] [get|set] <name>() { <body> }
EsMethodDefinition(name, static, kind, body) ==
    EsNode("MethodDefinition", name, "", static, kind, "", body)
\* <object>.prototype.<name> = ...
EsPrototypeAssignment(object, name) ==
    EsNode("AssignmentExpression", name, object, FALSE, "prototype", "", <<>>)
\* <object>.<name> = ...
EsStaticAssignment(object, name) ==
    EsNode("AssignmentExpression", name, object, FALSE, "static", "", <<>>)
\* this.<name> = ...
EsThisAssignment(name) ==
    EsNode("AssignmentExpression", name, "", FALSE, "this", "", <<>>)

\* classMap.has(className), as an index; 0: absent
ClassIndex(map, className) ==
    IF \E k \in 1..Len(map) : map[k].name = className
    THEN CHOOSE k \in 1..Len(map) : map[k].name = className
    ELSE 0

\* if (!classMap.has(className)) classMap.set(className, {...})
EnsureClass(map, className) ==
    IF ClassIndex(map, className) = 0 THEN Append(map, NewClientClass(className)) ELSE map

\* a declaration whose name makes a class: the class, the function-valued
\* variable and the function declaration branches of enter
DeclarationEnter(node, st) ==
    IF /\ \/ node.type = "ClassDeclaration"
          \/ node.type = "VariableDeclarator" /\ node.init = "FunctionExpression"
          \/ node.type = "FunctionDeclaration"
       /\ IsCandidateName(node.name)
    THEN [classMap |-> EnsureClass(st.classMap, node.name), currentClass |-> node.name]
    ELSE st

\* the cursor names a class of classMap
HasCurrentClass(st) == st.currentClass # "" /\ ClassIndex(st.classMap, st.currentClass) # 0

\* the MethodDefinition branch of enter
MethodEnter(node, st) ==
    IF node.type = "MethodDefinition" /\ HasCurrentClass(st)
    THEN [st EXCEPT !.classMap[ClassIndex(st.classMap, st.currentClass)] =
             IF node.static THEN AddStaticMethod(@, node.name) ELSE AddMethod(@, node.name)]
    ELSE st

\* the accessor branch of enter
AccessorEnter(node, st) ==
    IF node.type = "MethodDefinition" /\ node.kind \in {"get", "set"} /\ HasCurrentClass(st)
    THEN [st EXCEPT !.classMap[ClassIndex(st.classMap, st.currentClass)] =
             IF node.static THEN AddStaticProperty(@, node.name) ELSE AddProperty(@, node.name)]
    ELSE st

\* the `X.prototype.m = ...` branch of enter
PrototypeEnter(node, st) ==
    IF node.type = "AssignmentExpression" /\ node.kind = "prototype"
       /\ IsCandidateName(node.object)
    THEN LET map == EnsureClass(st.classMap, node.object)
         IN  [st EXCEPT !.classMap =
                 [map EXCEPT ![ClassIndex(map, node.object)] = AddMethod(@, node.name)]]
    ELSE st

\* the `X.p = ...` branch of enter
StaticEnter(node, st) ==
    IF node.type = "AssignmentExpression" /\ node.kind = "static"
       /\ IsCandidateName(node.object)
    THEN LET map == EnsureClass(st.classMap, node.object)
         IN  [st EXCEPT !.classMap =
                 [map EXCEPT ![ClassIndex(map, node.object)] = AddStaticProperty(@, node.name)]]
    ELSE st

\* the `this.p = ...` branch of enter
ThisEnter(node, st) ==
    IF node.type = "AssignmentExpression" /\ node.kind = "this"
    THEN IF HasCurrentClass(st)
         THEN [st EXCEPT !.classMap[ClassIndex(st.classMap, st.currentClass)] =
                  AddProperty(@, node.name)]
         ELSE [st EXCEPT !.classMap =
                  [k \in 1..Len(st.classMap) |-> AddProperty(st.classMap[k], node.name)]]
    ELSE st

\* enter: the branches in the order of the code
enter(node, st) ==
    ThisEnter(node,
        StaticEnter(node,
            PrototypeEnter(node,
                AccessorEnter(node, MethodEnter(node, DeclarationEnter(node, st))))))

\* leave: the end of a class, a function or a function-valued variable
\* clears the cursor
leave(node, st) ==
    IF \/ node.type = "ClassDeclaration"
       \/ node.type = "FunctionDeclaration"
       \/ node.type = "VariableDeclarator" /\ node.init = "FunctionExpression"
    THEN [st EXCEPT !.currentClass = ""]
    ELSE st

RECURSIVE walk(_, _)
RECURSIVE walkChildren(_, _, _)

\* walk(ast, {enter, leave}) on one node
walk(node, st) == leave(node, walkChildren(node, 1, enter(node, st)))

walkChildren(node, i, st) ==
    IF i > Len(node.kids) THEN st ELSE walkChildren(node, i + 1, walk(node.kids[i], st))

\* The mutant of CollectClasses: every class of classMap is pushed.
CollectEveryClass(map) == map

\* the loop over classMap.values() that pushes the classes with a member
CollectClasses(map) == SelectSeq(map, LAMBDA c : MemberCount(c) > 0)

\* classMap and currentClass after each of the first n top-level statements
RECURSIVE RecoveryAfter(_, _)
RecoveryAfter(bundle, n) ==
    IF n = 0 THEN <<[classMap |-> <<>>, currentClass |-> ""]>>
    ELSE LET before == RecoveryAfter(bundle, n - 1)
         IN  Append(before, walk(bundle[n], before[n]))

\* The mutant of parseClientForClasses: the classes recovered before the
\* error are resolved.
parseClientForClassesPartial(bundle, throwsAt) ==
    LET walked == IF throwsAt <= Len(bundle) THEN throwsAt ELSE Len(bundle)
    IN  CollectClasses(RecoveryAfter(bundle, walked)[walked + 1].classMap)

\* parseClientForClasses on a whole bundle. An error is raised behind
\* statement throwsAt (0: by the parser); throwsAt > Len(bundle) is no error.
\* classes is filled behind the walk only, so an error leaves it empty.
parseClientForClasses(bundle, throwsAt) ==
    IF throwsAt <= Len(bundle) THEN <<>>
    ELSE CollectClasses(RecoveryAfter(bundle, Len(bundle))[Len(bundle) + 1].classMap)

\* class ab {}
EmptyClassAb == EsClassDeclaration("ab", <<>>)
\* class ab { run() {} }
ClassAbRun == EsClassDeclaration("ab", <<EsMethodDefinition("run", FALSE, "method", <<>>)>>)
\* class abcd { run() {} }
ClassLongRun == EsClassDeclaration("abcd", <<EsMethodDefinition("run", FALSE, "method", <<>>)>>)
\* function CM() { this.hp = 1; }
FunctionCM == EsFunctionDeclaration("CM", <<EsThisAssignment("hp")>>)
\* var a1 = function () { this.hp = 1; }
VarDigit == EsVariableDeclarator("a1", "FunctionExpression", <<EsThisAssignment("hp")>>)
\* var ab = 1
VarLiteral == EsVariableDeclarator("ab", "Literal", <<>>)
\* ab.prototype.run = ...
PrototypeAb == EsPrototypeAssignment("ab", "run")
\* abcd.prototype.run = ...
PrototypeLong == EsPrototypeAssignment("abcd", "run")
\* CM.Instance = ...
StaticCM == EsStaticAssignment("CM", "Instance")
\* a1.Manager = ...
StaticDigit == EsStaticAssignment("a1", "Manager")
\* class CM { static get Instance() {} static Manager() {} }
ClassCMStatics ==
    EsClassDeclaration("CM", <<EsMethodDefinition("Instance", TRUE, "get", <<>>),
                               EsMethodDefinition("Manager", TRUE, "method", <<>>)>>)
\* class ab { run() { function CM() {} } get hp() {} }
ClassAbNested ==
    EsClassDeclaration("ab",
        <<EsMethodDefinition("run", FALSE, "method", <<EsFunctionDeclaration("CM", <<>>)>>),
          EsMethodDefinition("hp", FALSE, "get", <<>>)>>)

\* class ab { static Instance() {} static get Manager() {} }
ClassAbStatics ==
    EsClassDeclaration("ab", <<EsMethodDefinition("Instance", TRUE, "method", <<>>),
                               EsMethodDefinition("Manager", TRUE, "get", <<>>)>>)

BundleStatements ==
    {EmptyClassAb, ClassAbRun, ClassLongRun, FunctionCM, VarDigit, VarLiteral, PrototypeAb,
     PrototypeLong, StaticCM, StaticDigit, ClassCMStatics, ClassAbNested, ClassAbStatics}

Bundles == UNION {[1..n -> BundleStatements] : n \in 0..MaxDecls}

(***************************************************************************)
(* SpecParse: parseClientForClasses walks the bundle, one top-level        *)
(* statement a step, and resolves                                          *)
(***************************************************************************)

ParseIdle ==
    /\ cPc = "idle"
    /\ cBundle = <<>>
    /\ cIdx = 0
    /\ classMap = <<>>
    /\ currentClass = ""
    /\ cClasses = <<>>
    /\ cWarnings = 0

ParseInit ==
    /\ cPc = "walk"
    /\ cBundle \in Bundles
    /\ cIdx = 1
    /\ classMap = <<>>
    /\ currentClass = ""
    /\ cClasses = <<>>
    /\ cWarnings = 0

\* the walk of the next top-level statement: enter, its subtree, leave
WalkDeclaration ==
    /\ cPc = "walk"
    /\ cIdx <= Len(cBundle)
    /\ LET st == walk(cBundle[cIdx], [classMap |-> classMap, currentClass |-> currentClass])
       IN  /\ classMap' = st.classMap
           /\ currentClass' = st.currentClass
    /\ cIdx' = cIdx + 1
    /\ UNCHANGED <<cPc, cBundle, cClasses, cWarnings>>
    /\ UNCHANGED notParse

\* the walk is over: the classes with a member are pushed, the promise resolves
ResolveClasses ==
    /\ cPc = "walk"
    /\ cIdx > Len(cBundle)
    /\ cClasses' = CollectClasses(classMap)
    /\ cPc' = "resolved"
    /\ UNCHANGED <<cBundle, cIdx, classMap, currentClass, cWarnings>>
    /\ UNCHANGED notParse

\* MyParser.parse or the walk throws: the catch block warns, the promise
\* resolves with classes as it is
ParseThrows ==
    /\ cPc = "walk"
    /\ cWarnings' = cWarnings + 1
    /\ cPc' = "resolved"
    /\ UNCHANGED <<cBundle, cIdx, classMap, currentClass, cClasses>>
    /\ UNCHANGED notParse

ParseNext == WalkDeclaration \/ ResolveClasses \/ ParseThrows

(***************************************************************************)
(* Orchestrator: the discovery loop of analyzeGameHookDependencies         *)
(***************************************************************************)

\* the least score at which the best match is suggested
SuggestThreshold == 2

\* the match goes behind the last match whose score is not smaller; the
\* mutant of InsertMatch: it goes in front of the matches of equal score
InsertMatchBeforeEqual(sorted, match) ==
    LET k == Cardinality({i \in 1..Len(sorted) : sorted[i].matchScore > match.matchScore})
    IN  SubSeq(sorted, 1, k) \o <<match>> \o SubSeq(sorted, k + 1, Len(sorted))

\* one insertion of the stable sort by (a, b) => b.matchScore - a.matchScore:
\* the match goes behind every match whose score is not smaller
InsertMatch(sorted, match) ==
    LET k == Cardinality({i \in 1..Len(sorted) : sorted[i].matchScore >= match.matchScore})
    IN  SubSeq(sorted, 1, k) \o <<match>> \o SubSeq(sorted, k + 1, Len(sorted))

\* matches.sort((a, b) => b.matchScore - a.matchScore) on the first n matches
RECURSIVE SortMatches(_, _)
SortMatches(matches, n) ==
    IF n = 0 THEN <<>> ELSE InsertMatch(SortMatches(matches, n - 1), matches[n])

\* the loop over clientClasses: the matches of positive score, in its order
RECURSIVE CollectMatches(_, _, _, _)
CollectMatches(hookUsage, mappedName, classes, n) ==
    IF n = 0 THEN <<>>
    ELSE LET before == CollectMatches(hookUsage, mappedName, classes, n - 1)
             match == calculateMatchScore(hookUsage, classes[n], mappedName)
         IN  IF match.matchScore > 0 THEN Append(before, match) ELSE before

\* the loop over clientClasses: the classes calculateMatchScore was called
\* for, in the order of the calls
RECURSIVE ScoredClasses(_, _)
ScoredClasses(classes, n) ==
    IF n = 0 THEN <<>> ELSE Append(ScoredClasses(classes, n - 1), classes[n].name)

\* clientClasses.find(c => c.name === name) finds a class
HasClientClass(classes, name) == \E k \in 1..Len(classes) : classes[k].name = name

RegisterLine(clientClassName, hookName) ==
    [kind |-> "registerClass", clientClassName |-> clientClassName, hookName |-> hookName,
     was |-> ""]

\* The mutant of UpdateLine: the plain registerClass line is written.
UpdateLineUnannotated(clientClassName, hookName, was) ==
    [kind |-> "registerClass", clientClassName |-> clientClassName, hookName |-> hookName,
     was |-> ""]

UpdateLine(clientClassName, hookName, was) ==
    [kind |-> "UPDATE", clientClassName |-> clientClassName, hookName |-> hookName,
     was |-> was]

ConsoleLine(hookName, verdict) == [hookName |-> hookName, verdict |-> verdict]

\* The mutant of SuggestionLines: the best match is suggested whatever its score.
SuggestionLinesAnyScore(matches, existing, mappedName) ==
    IF Len(matches) > 0
    THEN IF existing # <<>> /\ existing[1].clientClassName # matches[1].clientClassName
         THEN <<UpdateLine(matches[1].clientClassName, mappedName, existing[1].clientClassName)>>
         ELSE IF existing = <<>>
              THEN <<RegisterLine(matches[1].clientClassName, mappedName)>>
              ELSE <<>>
    ELSE <<>>

\* the part of an iteration behind the sort: the lines it adds to results
SuggestionLines(matches, existing, mappedName) ==
    IF Len(matches) > 0 /\ matches[1].matchScore >= SuggestThreshold
    THEN IF existing # <<>> /\ existing[1].clientClassName # matches[1].clientClassName
         THEN <<UpdateLine(matches[1].clientClassName, mappedName, existing[1].clientClassName)>>
         ELSE IF existing = <<>>
              THEN <<RegisterLine(matches[1].clientClassName, mappedName)>>
              ELSE <<>>
    ELSE <<>>

\* the part of an iteration behind the sort: the verdict it writes
SuggestionVerdict(matches, existing, mappedName) ==
    IF Len(matches) > 0
    THEN IF matches[1].matchScore >= SuggestThreshold
         THEN IF existing # <<>> /\ existing[1].clientClassName # matches[1].clientClassName
              THEN <<ConsoleLine(mappedName, "SUGGESTED UPDATE")>>
              ELSE IF existing = <<>>
                   THEN <<ConsoleLine(mappedName, "SUGGESTED NEW")>>
                   ELSE <<>>
         ELSE <<ConsoleLine(mappedName, "needs manual review")>>
    ELSE <<ConsoleLine(mappedName, "No matches found")>>

\* classMappings.find(m => m.hookName === mappedName): <<>> or <<mapping>>
ExistingMapping(list, mappedName) ==
    IF FindMapping(list, mappedName) = 0 THEN <<>>
    ELSE <<list[FindMapping(list, mappedName)]>>

\* existingMapping is found and clientClasses holds a class of its name
MappingIsValid(existing, classes) ==
    IF existing = <<>> THEN FALSE ELSE HasClientClass(classes, existing[1].clientClassName)

\* the client bundles whose recovery fails in the runs of the model, and
\* the statement behind which it fails
FailingBundles ==
    {[bundle |-> <<s>>, throwsAt |-> n] : s \in BundleStatements, n \in 0..1}

ClassCM == AddMethod(AddStaticProperty(NewClientClass("CM"), "Instance"), "sendMessage")
ClassAb == AddMethod(AddProperty(NewClientClass("ab"), "hp"), "sendMessage")
ClassZz == AddProperty(NewClientClass("zz"), "hp")

CandidateClasses == {ClassCM, ClassAb, ClassZz}

\* what parseClientForClasses can resolve to: classes of different names
ClientClassLists ==
    {cs \in UNION {[1..n -> CandidateClasses] : n \in 0..MaxClasses} :
        \A i, j \in 1..Len(cs) : i # j => cs[i].name # cs[j].name}

UsageEntry(mappedName, properties, methods) ==
    [mappedName |-> mappedName, hookUsage |-> [properties |-> properties, methods |-> methods]]

UsageEntries ==
    {UsageEntry("ChatManager", <<"Instance">>, <<"sendMessage">>),
     UsageEntry("Foo", <<"hp">>, <<>>),
     UsageEntry("Foo", <<>>, <<"sendMessage">>),
     UsageEntry("Foo", <<"hp">>, <<"sendMessage">>),
     UsageEntry("Foo", <<>>, <<>>),
     UsageEntry("Foo", <<"hp">>, <<"m1">>),
     UsageEntry("Foo", <<>>, <<"m1">>)}

\* the usage table has one entry a hook
UsageTables ==
    {us \in UNION {[1..n -> UsageEntries] : n \in 0..MaxHooks} :
        \A i, j \in 1..Len(us) : i # j => us[i].mappedName # us[j].mappedName}

CoreStatements == {RegisterAbFoo, RegisterOldFoo, RegisterCmChat, HookFooM1}

CoreFiles ==
    {SourceFile(stmts) : stmts \in UNION {[1..n -> CoreStatements] : n \in 0..MaxCoreCalls}}

\* core.ts is one of the analysed files: the methods it registers for a hook
\* are in the usage table
UsageCoversCore(table, core) ==
    \A h \in DOMAIN analyzeFileForHookRegistrations(core) :
        \E i \in 1..Len(table) :
            /\ table[i].mappedName = h
            /\ analyzeFileForHookRegistrations(core)[h].methods
                   \subseteq Range(table[i].hookUsage.methods)

(***************************************************************************)
(* SpecPipe: a whole run of analyzeGameHookDependencies from the reading   *)
(* of core.ts on                                                           *)
(***************************************************************************)

PipeIdle ==
    /\ pPc = "idle"
    /\ pCore = SourceFile(<<>>)
    /\ pUsage = <<>>
    /\ classMappings = <<>>
    /\ clientClasses = <<>>
    /\ pIdx = 0
    /\ results = <<>>
    /\ pConsole = <<>>
    /\ pSearches = <<>>
    /\ pPromise = "pending"
    /\ pHandler = "none"

PipeInit ==
    /\ pPc = "core"
    /\ pCore \in CoreFiles
    /\ pUsage \in UsageTables
    /\ UsageCoversCore(pUsage, pCore)
    /\ classMappings = <<>>
    /\ clientClasses = <<>>
    /\ pIdx = 0
    /\ results = <<>>
    /\ pConsole = <<>>
    /\ pSearches = <<>>
    /\ pPromise = "pending"
    /\ pHandler = "none"

\* const classMappings = await extractClassMappingsFromCore(coreFilePath)
ExtractCore ==
    /\ pPc = "core"
    /\ classMappings' = extractClassMappingsFromCore(pCore)
    /\ pPc' = "client"
    /\ UNCHANGED <<pCore, pUsage, clientClasses, pIdx, results, pConsole, pSearches>>
    /\ UNCHANGED <<pPromise, pHandler>>
    /\ UNCHANGED notPipe

\* const clientClasses = await parseClientForClasses(clientCode)
ParseClient ==
    /\ pPc = "client"
    /\ \E classes \in ClientClassLists : clientClasses' = classes
    /\ pIdx' = 1
    /\ pPc' = "loop"
    /\ UNCHANGED <<pCore, pUsage, classMappings, results, pConsole, pSearches>>
    /\ UNCHANGED <<pPromise, pHandler>>
    /\ UNCHANGED notPipe

\* parseClientForClasses catches an error of the parser or of the walk,
\* warns, and resolves
ParseClientThrows ==
    /\ pPc = "client"
    /\ \E f \in FailingBundles : clientClasses' = parseClientForClasses(f.bundle, f.throwsAt)
    /\ pConsole' = Append(pConsole, ConsoleLine("", "Error parsing client code"))
    /\ pIdx' = 1
    /\ pPc' = "loop"
    /\ UNCHANGED <<pCore, pUsage, classMappings, results, pSearches>>
    /\ UNCHANGED <<pPromise, pHandler>>
    /\ UNCHANGED notPipe

\* an iteration that finds the class of the existing mapping and continues
KeepMapping ==
    /\ pPc = "loop"
    /\ pIdx <= Len(pUsage)
    /\ LET mappedName == pUsage[pIdx].mappedName
           existing == ExistingMapping(classMappings, mappedName)
       IN  /\ MappingIsValid(existing, clientClasses)
           /\ results' = Append(results, RegisterLine(existing[1].clientClassName, mappedName))
           /\ pConsole' = Append(pConsole, ConsoleLine(mappedName, "valid"))
    /\ pIdx' = pIdx + 1
    /\ UNCHANGED <<pPc, pCore, pUsage, classMappings, clientClasses, pSearches>>
    /\ UNCHANGED <<pPromise, pHandler>>
    /\ UNCHANGED notPipe

\* an iteration that scores every candidate, sorts the matches and suggests
SearchMatch ==
    /\ pPc = "loop"
    /\ pIdx <= Len(pUsage)
    /\ LET mappedName == pUsage[pIdx].mappedName
           hookUsage == pUsage[pIdx].hookUsage
           existing == ExistingMapping(classMappings, mappedName)
           collected == CollectMatches(hookUsage, mappedName, clientClasses, Len(clientClasses))
           matches == SortMatches(collected, Len(collected))
       IN  /\ ~MappingIsValid(existing, clientClasses)
           /\ results' = results \o SuggestionLines(matches, existing, mappedName)
           /\ pConsole' =
                  pConsole
                  \o (IF existing # <<>> THEN <<ConsoleLine(mappedName, "INVALID")>> ELSE <<>>)
                  \o SuggestionVerdict(matches, existing, mappedName)
           /\ pSearches' = Append(pSearches, [hookName |-> mappedName, matches |-> matches,
                                            scored |-> ScoredClasses(clientClasses, Len(clientClasses))])
    /\ pIdx' = pIdx + 1
    /\ UNCHANGED <<pPc, pCore, pUsage, classMappings, clientClasses>>
    /\ UNCHANGED <<pPromise, pHandler>>
    /\ UNCHANGED notPipe

\* the loop is over; analyzeGameHookDependencies returns usage
PipeReturn ==
    /\ pPc = "loop"
    /\ pIdx > Len(pUsage)
    /\ pPc' = "done"
    /\ pPromise' = "fulfilled"
    /\ UNCHANGED <<pCore, pUsage, classMappings, clientClasses, pIdx, results, pConsole,
                   pSearches>>
    /\ UNCHANGED pHandler
    /\ UNCHANGED notPipe

\* findTypeScriptFiles throws, outside every try block: the promise of
\* analyzeGameHookDependencies is rejected
FindFilesThrows ==
    /\ pPc = "core"
    /\ pPc' = "done"
    /\ pPromise' = "rejected"
    /\ UNCHANGED <<pCore, pUsage, classMappings, clientClasses, pIdx, results, pConsole,
                   pSearches, pHandler>>
    /\ UNCHANGED notPipe

\* The mutant of FetchClientThrows: the error leaves analyzeGameHookDependencies.
FetchClientRejects ==
    /\ pPc = "client"
    /\ pConsole' = Append(pConsole, ConsoleLine("", "Error analyzing client code"))
    /\ pPc' = "done"
    /\ pPromise' = "rejected"
    /\ UNCHANGED <<pCore, pUsage, classMappings, clientClasses, pIdx, results, pSearches,
                   pHandler>>
    /\ UNCHANGED notPipe

\* obtainGameClient rejects (a fetch fails): the catch block around the
\* client phase reports the error, and the function returns usage
FetchClientThrows ==
    /\ pPc = "client"
    /\ pConsole' = Append(pConsole, ConsoleLine("", "Error analyzing client code"))
    /\ pPc' = "done"
    /\ pPromise' = "fulfilled"
    /\ UNCHANGED <<pCore, pUsage, classMappings, clientClasses, pIdx, results, pSearches,
                   pHandler>>
    /\ UNCHANGED notPipe

\* .then(() => console.log(results.join("\n")))
TopLevelThen ==
    /\ pPromise = "fulfilled"
    /\ pHandler = "none"
    /\ pHandler' = "then"
    /\ UNCHANGED <<pPc, pCore, pUsage, classMappings, clientClasses, pIdx, results, pConsole,
                   pSearches, pPromise>>
    /\ UNCHANGED notPipe

\* .catch(console.error)
TopLevelCatch ==
    /\ pPromise = "rejected"
    /\ pHandler = "none"
    /\ pHandler' = "catch"
    /\ UNCHANGED <<pPc, pCore, pUsage, classMappings, clientClasses, pIdx, results, pConsole,
                   pSearches, pPromise>>
    /\ UNCHANGED notPipe

PipeNext ==
    \/ ExtractCore \/ FindFilesThrows \/ FetchClientThrows \/ ParseClient \/ ParseClientThrows
    \/ KeepMapping \/ SearchMatch \/ PipeReturn \/ TopLevelThen \/ TopLevelCatch

(***************************************************************************)
(* Usage Aggregator: the loop over the files and the two merge loops of    *)
(* analyzeGameHookDependencies                                             *)
(***************************************************************************)

\* projectRoot, and a file under it, as path segments
ProjectRoot == <<"proj">>
AbsolutePath(name) == ProjectRoot \o <<"src", name>>

\* path.relative(projectRoot, file) for a file under projectRoot
RelativePath(root, file) == SubSeq(file, Len(root) + 1, Len(file))

\* the state of visit after each of the first n top-level statements
RECURSIVE WalkStateAfter(_, _)
WalkStateAfter(tree, n) ==
    IF n = 0 THEN <<[tracker |-> NewScopeTracker, deps |-> <<>>]>>
    ELSE LET before == WalkStateAfter(tree, n - 1)
         IN  Append(before, visit(tree.kids[n], FALSE, n, before[n]))

\* analyzeFileForGameHooks on a whole file that raises no error
analyzeFileForGameHooks(tree) == WalkStateAfter(tree, Len(tree.kids))[Len(tree.kids) + 1].deps

\* the references of a file, each with file: filePath
RECURSIVE DependenciesOfFile(_, _, _)
DependenciesOfFile(deps, n, filePath) ==
    IF n = 0 THEN <<>>
    ELSE Append(DependenciesOfFile(deps, n - 1, filePath),
                [hookName |-> deps[n].hookName, propertyChain |-> deps[n].propertyChain,
                 line |-> deps[n].line, isDirect |-> deps[n].isDirect,
                 sourceVariable |-> deps[n].sourceVariable, file |-> filePath])

\* a new entry of allHookRegistrations or usage
NewUsage(fromDirectAccess, fromHookRegistration) ==
    [properties |-> {}, methods |-> {}, fullExpressions |-> {}, files |-> {},
     fromDirectAccess |-> fromDirectAccess, fromHookRegistration |-> fromHookRegistration]

\* the loop over Object.entries(hookRegs) of one file: entries are created
\* when absent; methods are added, and the file, relative to projectRoot
MergeFileRegistrations(all, hookRegs, filePath) ==
    [h \in DOMAIN all \cup {Plain(c) : c \in DOMAIN hookRegs} |->
        IF h.name \in DOMAIN hookRegs /\ h.calls = 0
        THEN LET entry == IF h \in DOMAIN all THEN all[h] ELSE NewUsage(FALSE, TRUE)
             IN  [entry EXCEPT
                     !.methods = @ \cup {Plain(m) : m \in hookRegs[h.name].methods},
                     !.files = @ \cup {RelativePath(ProjectRoot, filePath)}]
        ELSE all[h]]

\* prop.includes('()')
HasCallMarker(prop) == prop.calls > 0

\* prop.replace('()', ''): the first marker is taken away
WithoutCallMarker(prop) == Seg(prop.name, prop.calls - 1)

\* the loop over dep.propertyChain; its three branches add alike
RECURSIVE AddChain(_, _, _)
AddChain(entry, chain, n) ==
    IF n = 0 THEN entry
    ELSE LET before == AddChain(entry, chain, n - 1)
         IN  IF HasCallMarker(chain[n])
             THEN [before EXCEPT !.methods = @ \cup {WithoutCallMarker(chain[n])}]
             ELSE [before EXCEPT !.properties = @ \cup {chain[n]}]

\* The mutant of AddUsageFile: the file takes the place of the files before.
AddUsageFileReplacing(entry, file) == [entry EXCEPT !.files = {file}]

\* hookUsage.files.add(path.relative(projectRoot, dep.file))
AddUsageFile(entry, file) == [entry EXCEPT !.files = @ \cup {file}]

\* one iteration of the loop over allDependencies; fullExpressions, the
\* source text of the references, stays out of the model
AggregateDependencyInto(table, dep) ==
    LET entry == IF dep.hookName \in DOMAIN table THEN table[dep.hookName]
                 ELSE NewUsage(dep.isDirect, FALSE)
        filed == AddUsageFile(entry, RelativePath(ProjectRoot, dep.file))
        direct == IF dep.isDirect THEN [filed EXCEPT !.fromDirectAccess = TRUE] ELSE filed
    IN  MapSet(table, dep.hookName, AddChain(direct, dep.propertyChain, Len(dep.propertyChain)))

\* the loop over Object.entries(allHookRegistrations) that ends the table
MergeRegistrations(table, all) ==
    [h \in DOMAIN table \cup DOMAIN all |->
        IF h \notin DOMAIN all THEN table[h]
        ELSE IF h \notin DOMAIN table THEN all[h]
        ELSE [table[h] EXCEPT !.methods = @ \cup all[h].methods,
                              !.files = @ \cup all[h].files,
                              !.fromHookRegistration = TRUE]]

\* allDependencies after the first n files
RECURSIVE DependenciesOfFiles(_, _)
DependenciesOfFiles(files, n) ==
    IF n = 0 THEN <<>>
    ELSE DependenciesOfFiles(files, n - 1)
         \o DependenciesOfFile(analyzeFileForGameHooks(files[n].tree),
                               Len(analyzeFileForGameHooks(files[n].tree)), files[n].path)

\* allHookRegistrations after the first n files
RECURSIVE RegistrationsOfFiles(_, _)
RegistrationsOfFiles(files, n) ==
    IF n = 0 THEN EmptyMap
    ELSE MergeFileRegistrations(RegistrationsOfFiles(files, n - 1),
                                analyzeFileForHookRegistrations(files[n].tree), files[n].path)

\* usage after the first n references
RECURSIVE UsageOfDependencies(_, _)
UsageOfDependencies(deps, n) ==
    IF n = 0 THEN EmptyMap
    ELSE AggregateDependencyInto(UsageOfDependencies(deps, n - 1), deps[n])

\* usage as the three loops build it from the files, taken in their order
AggregateUsage(files) ==
    MergeRegistrations(
        UsageOfDependencies(DependenciesOfFiles(files, Len(files)),
                            Len(DependenciesOfFiles(files, Len(files)))),
        RegistrationsOfFiles(files, Len(files)))

AnalysedFile(name, statements) ==
    [path |-> AbsolutePath(name), tree |-> SourceFile(statements)]

\* a.ts: const x = gameHooks.Foo.bar; x.baz;
FileAlias == AnalysedFile("a.ts", <<ConstX, UseX>>)
\* b.ts: gameHooks.Foo.bar();
FileCall == AnalysedFile("b.ts", <<DirectCall>>)
\* c.ts: two hook registrations of Foo
FileRegistrations == AnalysedFile("c.ts", <<HookFooM1, OverrideFooM2>>)
\* d.ts: a hook registration of ChatManager
FileChat == AnalysedFile("d.ts", <<HookChatM1>>)
\* e.ts: x.baz; and a hook registration of Foo
FileMixed == AnalysedFile("e.ts", <<UseX, HookFooM1>>)

\* x();
CallX == ExpressionStatement(Call(Identifier("x"), <<>>))
\* f.ts: const x = gameHooks.Foo.bar; x();
FileAliasCall == AnalysedFile("f.ts", <<ConstX, CallX>>)

AnalysedFiles == {FileAlias, FileCall, FileRegistrations, FileChat, FileMixed, FileAliasCall}

\* findTypeScriptFiles: some files, each once, in some order
FileLists ==
    {fs \in UNION {[1..n -> AnalysedFiles] : n \in 1..MaxFiles} :
        \A i, j \in 1..Len(fs) : i # j => fs[i] # fs[j]}

(***************************************************************************)
(* SpecAgg: the files are analysed in order, then the references and the   *)
(* registrations are merged into usage                                     *)
(***************************************************************************)

AggIdle ==
    /\ aPc = "idle"
    /\ aFiles = <<>>
    /\ aIdx = 0
    /\ allDependencies = <<>>
    /\ allHookRegistrations = EmptyMap
    /\ aUsage = EmptyMap

AggInit ==
    /\ aPc = "files"
    /\ aFiles \in FileLists
    /\ aIdx = 1
    /\ allDependencies = <<>>
    /\ allHookRegistrations = EmptyMap
    /\ aUsage = EmptyMap

\* one iteration of the loop over files
AnalyzeFile ==
    /\ aPc = "files"
    /\ aIdx <= Len(aFiles)
    /\ LET deps == analyzeFileForGameHooks(aFiles[aIdx].tree)
           hookRegs == analyzeFileForHookRegistrations(aFiles[aIdx].tree)
       IN  /\ allDependencies' =
                  allDependencies \o DependenciesOfFile(deps, Len(deps), aFiles[aIdx].path)
           /\ allHookRegistrations' =
                  MergeFileRegistrations(allHookRegistrations, hookRegs, aFiles[aIdx].path)
    /\ IF aIdx = Len(aFiles) THEN aPc' = "deps" /\ aIdx' = 1
       ELSE aPc' = aPc /\ aIdx' = aIdx + 1
    /\ UNCHANGED <<aFiles, aUsage>>
    /\ UNCHANGED notAgg

\* one iteration of the loop over allDependencies
AggregateDependency ==
    /\ aPc = "deps"
    /\ aIdx <= Len(allDependencies)
    /\ aUsage' = AggregateDependencyInto(aUsage, allDependencies[aIdx])
    /\ aIdx' = aIdx + 1
    /\ UNCHANGED <<aPc, aFiles, allDependencies, allHookRegistrations>>
    /\ UNCHANGED notAgg

\* the loop over allHookRegistrations
MergeAllRegistrations ==
    /\ aPc = "deps"
    /\ aIdx > Len(allDependencies)
    /\ aUsage' = MergeRegistrations(aUsage, allHookRegistrations)
    /\ aPc' = "done"
    /\ UNCHANGED <<aFiles, aIdx, allDependencies, allHookRegistrations>>
    /\ UNCHANGED notAgg

AggNext == AnalyzeFile \/ AggregateDependency \/ MergeAllRegistrations

(***************************************************************************)
(* Client Source: obtainGameClient                                         *)
(***************************************************************************)

\* the raw bundle text the server holds for a version
RemoteBundle(version) == [version |-> version, patched |-> FALSE]

\* the document.client accessor shim spliced in before the last 9 characters
PatchClient(text) == [text EXCEPT !.patched = TRUE]

EmptyDb == [key \in {} |-> 0]

\* highliteDB.getItem(key): <<>> stands for undefined
getItem(db, key) == IF key \in DOMAIN db THEN <<db[key]>> ELSE <<>>

\* highliteDB.setItem(key, value)
setItem(db, key, value) ==
    [k \in DOMAIN db \union {key} |-> IF k = key THEN value ELSE db[k]]

\* await highliteDB.getItem("clientLastVersion") || 0
StoredVersion(db) ==
    IF getItem(db, "clientLastVersion") = <<>> THEN 0 ELSE db["clientLastVersion"]

\* The mutant of IsOutdated: an equal version counts as outdated.
IsOutdatedOrEqual(localVersion, remoteVersion) == localVersion <= remoteVersion

\* clientLastVersion == undefined || clientLastVersion < remoteLastVersion;
\* the local is a number on every path (|| 0)
IsOutdated(localVersion, remoteVersion) == localVersion < remoteVersion

ClientIdle ==
    /\ gPc = "idle"
    /\ gIgnoreDB = FALSE
    /\ gDb = EmptyDb
    /\ clientLastVersion = 0
    /\ remoteLastVersion = 0
    /\ highSpellClient = <<>>
    /\ gReturned = <<>>
    /\ gFetched = FALSE
    /\ gWrites = <<>>
    /\ gStartDb = EmptyDb
    /\ gRuns = 0

\* a fresh profile: the store is empty before the first run
ClientInit == ClientIdle

\* obtainGameClient(ignoreDB) is called; one run at a time
StartClient ==
    /\ gPc \in {"idle", "done", "failed"}
    /\ gRuns < MaxRuns
    /\ \E ignoreDB \in BOOLEAN :
        /\ gIgnoreDB' = ignoreDB
        /\ gPc' = IF ignoreDB THEN "asset" ELSE "version"
    /\ clientLastVersion' = 0
    /\ remoteLastVersion' = 0
    /\ highSpellClient' = <<>>
    /\ gReturned' = <<>>
    /\ gFetched' = FALSE
    /\ gWrites' = <<>>
    /\ gStartDb' = gDb
    /\ gRuns' = gRuns + 1
    /\ UNCHANGED gDb
    /\ UNCHANGED notClient

\* highliteDB.init(), then the stored version
ReadVersion ==
    /\ gPc = "version"
    /\ clientLastVersion' = StoredVersion(gDb)
    /\ gPc' = "asset"
    /\ UNCHANGED <<gIgnoreDB, gDb, remoteLastVersion, highSpellClient, gReturned, gFetched,
                   gWrites, gStartDb, gRuns>>
    /\ UNCHANGED notClient

\* the asset JSON announces latestClientVersion
FetchAsset ==
    /\ gPc = "asset"
    /\ \E latestClientVersion \in 1..MaxVersion :
        /\ remoteLastVersion' = latestClientVersion
        /\ gPc' = IF IsOutdated(clientLastVersion, latestClientVersion)
                  THEN "bundle" ELSE "cached"
    /\ UNCHANGED <<gIgnoreDB, gDb, clientLastVersion, highSpellClient, gReturned, gFetched,
                   gWrites, gStartDb, gRuns>>
    /\ UNCHANGED notClient

\* the fetch of the asset JSON rejects
FetchAssetFails ==
    /\ gPc = "asset"
    /\ gPc' = "failed"
    /\ UNCHANGED <<gIgnoreDB, gDb, clientLastVersion, remoteLastVersion, highSpellClient,
                   gReturned, gFetched, gWrites, gStartDb, gRuns>>
    /\ UNCHANGED notClient

\* the bundle of the announced version is fetched and patched
FetchBundle ==
    /\ gPc = "bundle"
    /\ gFetched' = TRUE
    /\ highSpellClient' = <<PatchClient(RemoteBundle(remoteLastVersion))>>
    /\ gPc' = IF gIgnoreDB THEN "return" ELSE "storeText"
    /\ UNCHANGED <<gIgnoreDB, gDb, clientLastVersion, remoteLastVersion, gReturned, gWrites,
                   gStartDb, gRuns>>
    /\ UNCHANGED notClient

\* the fetch of the bundle rejects
FetchBundleFails ==
    /\ gPc = "bundle"
    /\ gFetched' = TRUE
    /\ gPc' = "failed"
    /\ UNCHANGED <<gIgnoreDB, gDb, clientLastVersion, remoteLastVersion, highSpellClient,
                   gReturned, gWrites, gStartDb, gRuns>>
    /\ UNCHANGED notClient

\* The mutant of StoreText: the version is written where the text should be.
StoreVersionFirst ==
    /\ gPc = "storeText"
    /\ gDb' = setItem(gDb, "clientLastVersion", remoteLastVersion)
    /\ gWrites' = Append(gWrites, "clientLastVersion")
    /\ gPc' = "storeVersion"
    /\ UNCHANGED <<gIgnoreDB, clientLastVersion, remoteLastVersion, highSpellClient, gReturned,
                   gFetched, gStartDb, gRuns>>
    /\ UNCHANGED notClient

\* await highliteDB.setItem("highSpellClient", highSpellClient)
StoreText ==
    /\ gPc = "storeText"
    /\ gDb' = setItem(gDb, "highSpellClient", highSpellClient[1])
    /\ gWrites' = Append(gWrites, "highSpellClient")
    /\ gPc' = "storeVersion"
    /\ UNCHANGED <<gIgnoreDB, clientLastVersion, remoteLastVersion, highSpellClient, gReturned,
                   gFetched, gStartDb, gRuns>>
    /\ UNCHANGED notClient

\* await highliteDB.setItem("clientLastVersion", remoteLastVersion)
StoreVersion ==
    /\ gPc = "storeVersion"
    /\ gDb' = setItem(gDb, "clientLastVersion", remoteLastVersion)
    /\ gWrites' = Append(gWrites, "clientLastVersion")
    /\ gPc' = "return"
    /\ UNCHANGED <<gIgnoreDB, clientLastVersion, remoteLastVersion, highSpellClient, gReturned,
                   gFetched, gStartDb, gRuns>>
    /\ UNCHANGED notClient

\* a setItem rejects, or the run ends, before the write takes place
StoreFails ==
    /\ gPc \in {"storeText", "storeVersion"}
    /\ gPc' = "failed"
    /\ UNCHANGED <<gIgnoreDB, gDb, clientLastVersion, remoteLastVersion, highSpellClient,
                   gReturned, gFetched, gWrites, gStartDb, gRuns>>
    /\ UNCHANGED notClient

\* the version is up to date: the stored text, when there is a store
ReadCached ==
    /\ gPc = "cached"
    /\ highSpellClient' = IF gIgnoreDB THEN <<>> ELSE getItem(gDb, "highSpellClient")
    /\ gPc' = "return"
    /\ UNCHANGED <<gIgnoreDB, gDb, clientLastVersion, remoteLastVersion, gReturned, gFetched,
                   gWrites, gStartDb, gRuns>>
    /\ UNCHANGED notClient

\* return Promise.resolve(highSpellClient)
ClientReturn ==
    /\ gPc = "return"
    /\ gReturned' = <<highSpellClient>>
    /\ gPc' = "done"
    /\ UNCHANGED <<gIgnoreDB, gDb, clientLastVersion, remoteLastVersion, highSpellClient,
                   gFetched, gWrites, gStartDb, gRuns>>
    /\ UNCHANGED notClient

ClientNext ==
    \/ StartClient \/ ReadVersion \/ FetchAsset \/ FetchAssetFails \/ FetchBundle
    \/ FetchBundleFails \/ StoreText \/ StoreVersion \/ StoreFails \/ ReadCached
    \/ ClientReturn

(***************************************************************************)
(* LocationMusicPlayer.  The fields of the plugin that its methods change  *)
(* travel as one record, player: isGameReady, currentZone, fadeInterval,   *)
(* audio (the audio elements), plays (pending play() promises), timers     *)
(* (pending waitForGameReady timeouts), from (history).  A volume is       *)
(* counted in units of 1/FadeSteps of the target volume.                   *)
(***************************************************************************)

\* the zone the plugin is built with, and one added through addMusicZone
ZoneHedge ==
    [xMin |-> -350, yMin |-> -25, xMax |-> -300, yMax |-> 25,
     sound |-> "adventure.mp3", areaName |-> "Hedge", priority |-> 1]
ZoneTown ==
    [xMin |-> 100, yMin |-> -25, xMax |-> 150, yMax |-> 25,
     sound |-> "town.mp3", areaName |-> "Town", priority |-> 1]

\* positions of the main player: in Hedge, in Town, in no zone
Positions == {[X |-> -325, Z |-> 0], [X |-> 125, Z |-> 0], [X |-> 0, Z |-> 0]}

\* new Audio() of preloadAudioFiles: not playing, volume 0
NewAudio == [paused |-> TRUE, volume |-> 0]

\* preloadAudioFiles: an element for every sound that has none
preloadAudioFiles(elements, zones) ==
    [sound \in DOMAIN elements \cup {zones[i].sound : i \in 1..Len(zones)} |->
        IF sound \in DOMAIN elements THEN elements[sound] ELSE NewAudio]

isPlayerInZone(playerX, playerZ, zone) ==
    /\ playerX >= zone.xMin
    /\ playerX <= zone.xMax
    /\ playerZ >= zone.yMin
    /\ playerZ <= zone.yMax

\* the loop of checkPlayerLocation: the first zone of highest priority that
\* holds the player; <<>> for null
RECURSIVE TargetZone(_, _, _)
TargetZone(zones, n, position) ==
    IF n = 0 THEN [zone |-> <<>>, highestPriority |-> -1]
    ELSE LET prior == TargetZone(zones, n - 1, position)
         IN  IF /\ isPlayerInZone(position.X, position.Z, zones[n])
                /\ zones[n].priority > prior.highestPriority
             THEN [zone |-> <<zones[n]>>, highestPriority |-> zones[n].priority]
             ELSE prior

clearFadeInterval(player) == [player EXCEPT !.fadeInterval = <<>>]

\* audio.pause(): the element stops, and its pending play() promises are
\* rejected
PauseAudio(player, sound) ==
    [player EXCEPT !.audio[sound].paused = TRUE,
                   !.plays = SelectSeq(@, LAMBDA pending : pending # sound)]

stopAllMusic(player) ==
    [clearFadeInterval(player) EXCEPT
        !.audio = [sound \in DOMAIN player.audio |-> [paused |-> TRUE, volume |-> 0]],
        !.plays = <<>>]

\* fadeAudio up to the setInterval call: the interval before is cleared, the
\* new one is the only one the plugin holds
fadeAudio(player, sound, startVolume, endVolume, pauseOnComplete) ==
    [clearFadeInterval(player) EXCEPT
        !.audio[sound].volume = startVolume,
        !.fadeInterval = <<[sound |-> sound, currentStep |-> 0, startVolume |-> startVolume,
                            endVolume |-> endVolume, pauseOnComplete |-> pauseOnComplete]>>]

fadeOutMusic(player, sound) ==
    IF sound \notin DOMAIN player.audio THEN player
    ELSE fadeAudio(player, sound, player.audio[sound].volume, 0, TRUE)

\* fadeInMusic up to the play() call: the element plays from now on, the
\* promise is pending
fadeInMusic(player, sound) ==
    IF sound \notin DOMAIN player.audio THEN player
    ELSE [player EXCEPT !.audio[sound] = [paused |-> FALSE, volume |-> 0],
                        !.plays = Append(@, sound)]

transitionToZone(player, newZone) ==
    LET faded == IF player.currentZone # <<>>
                 THEN fadeOutMusic(player, player.currentZone[1].sound) ELSE player
        started == IF newZone # <<>> THEN fadeInMusic(faded, newZone[1].sound) ELSE faded
    IN  [started EXCEPT !.currentZone = newZone, !.from = player.currentZone]

checkPlayerLocation(player, worldReady, position, zones) ==
    IF ~worldReady THEN player
    ELSE LET targetZone == TargetZone(zones, Len(zones), position).zone
         IN  IF targetZone # player.currentZone
             THEN transitionToZone(player, targetZone) ELSE player

\* one call of waitForGameReady(attempt): ready, or given up, or a timeout
\* that will make the next attempt
waitForGameReady(player, attempt, worldReady, enabled, position, zones) ==
    IF worldReady
    THEN LET ready == [player EXCEPT !.isGameReady = TRUE]
         IN  IF enabled THEN checkPlayerLocation(ready, worldReady, position, zones)
             ELSE ready
    ELSE IF attempt >= MaxAttempts THEN player
    ELSE [player EXCEPT !.timers = Append(@, attempt + 1)]

\* the callback of the fade interval, once
FadeStep(player) ==
    LET fade == player.fadeInterval[1]
        currentStep == fade.currentStep + 1
        stepped == fade.startVolume
                   + ((fade.endVolume - fade.startVolume) * currentStep) \div FadeSteps
        volume == IF stepped < 0 THEN 0 ELSE IF stepped > FadeSteps THEN FadeSteps ELSE stepped
        moved == [player EXCEPT !.audio[fade.sound].volume = volume,
                                !.fadeInterval[1].currentStep = currentStep]
    IN  IF currentStep >= FadeSteps
        THEN LET ended == [clearFadeInterval(moved) EXCEPT
                              !.audio[fade.sound].volume = fade.endVolume]
             IN  IF fade.pauseOnComplete THEN PauseAudio(ended, fade.sound) ELSE ended
        ELSE moved

\* the fields of the plugin, as the record the operators above take
Player ==
    [isGameReady |-> isGameReady, currentZone |-> currentZone, fadeInterval |-> fadeInterval,
     audio |-> audioElements, plays |-> mPlays, timers |-> mTimers, from |-> mFrom]

\* the fields of the plugin become those of the record
Becomes(player) ==
    /\ isGameReady' = player.isGameReady
    /\ currentZone' = player.currentZone
    /\ fadeInterval' = player.fadeInterval
    /\ audioElements' = player.audio
    /\ mPlays' = player.plays
    /\ mTimers' = player.timers
    /\ mFrom' = player.from

\* the plugin after its constructor and init()
MusicIdle ==
    /\ isGameReady = FALSE
    /\ currentZone = <<>>
    /\ fadeInterval = <<>>
    /\ musicZones = <<ZoneHedge>>
    /\ audioElements = preloadAudioFiles(EmptyMap, <<ZoneHedge>>)
    /\ mPlays = <<>>
    /\ mTimers = <<>>
    /\ mEnable = TRUE
    /\ mWorldReady = FALSE
    /\ mPosition = [X |-> 0, Z |-> 0]
    /\ mSilenced = FALSE
    /\ mFrom = <<>>

MusicInit == MusicIdle

\* start()
MusicStart ==
    /\ Len(mTimers) < MaxTimers
    /\ Len(mPlays) < MaxPlays
    /\ Becomes(waitForGameReady([Player EXCEPT !.isGameReady = FALSE], 1,
                                mWorldReady, mEnable, mPosition, musicZones))
    /\ mSilenced' = FALSE
    /\ UNCHANGED <<musicZones, mEnable, mWorldReady, mPosition>>
    /\ UNCHANGED notMusic

\* stop()
MusicStop ==
    /\ Becomes([stopAllMusic(clearFadeInterval([Player EXCEPT !.isGameReady = FALSE]))
                   EXCEPT !.currentZone = <<>>])
    /\ mSilenced' = TRUE
    /\ UNCHANGED <<musicZones, mEnable, mWorldReady, mPosition>>
    /\ UNCHANGED notMusic

SocketManager_loggedIn ==
    /\ Len(mTimers) < MaxTimers
    /\ Len(mPlays) < MaxPlays
    /\ Becomes(waitForGameReady([Player EXCEPT !.isGameReady = FALSE], 1,
                                mWorldReady, mEnable, mPosition, musicZones))
    /\ mSilenced' = FALSE
    /\ UNCHANGED <<musicZones, mEnable, mWorldReady, mPosition>>
    /\ UNCHANGED notMusic

SocketManager_handleLoggedOut ==
    /\ Becomes([stopAllMusic([Player EXCEPT !.isGameReady = FALSE])
                   EXCEPT !.currentZone = <<>>])
    /\ mSilenced' = TRUE
    /\ UNCHANGED <<musicZones, mEnable, mWorldReady, mPosition>>
    /\ UNCHANGED notMusic

\* GameLoop_update on a tick that falls in the check window
GameLoop_update ==
    /\ Len(mPlays) < MaxPlays
    /\ mEnable
    /\ isGameReady
    /\ Becomes(checkPlayerLocation(Player, mWorldReady, mPosition, musicZones))
    /\ UNCHANGED <<musicZones, mEnable, mWorldReady, mPosition, mSilenced>>
    /\ UNCHANGED notMusic

\* a waitForGameReady timeout fires
RetryTimerFires ==
    /\ Len(mPlays) < MaxPlays
    /\ \E i \in 1..Len(mTimers) :
        Becomes(waitForGameReady(
                    [Player EXCEPT !.timers = SubSeq(mTimers, 1, i - 1)
                                              \o SubSeq(mTimers, i + 1, Len(mTimers))],
                    mTimers[i], mWorldReady, mEnable, mPosition, musicZones))
    /\ UNCHANGED <<musicZones, mEnable, mWorldReady, mPosition, mSilenced>>
    /\ UNCHANGED notMusic

\* the fade interval fires
FadeIntervalFires ==
    /\ fadeInterval # <<>>
    /\ Becomes(FadeStep(Player))
    /\ UNCHANGED <<musicZones, mEnable, mWorldReady, mPosition, mSilenced>>
    /\ UNCHANGED notMusic

\* a play() promise is fulfilled: the fade-in starts
PlayResolves ==
    /\ mPlays # <<>>
    /\ Becomes(fadeAudio([Player EXCEPT !.plays = Tail(mPlays)], Head(mPlays), 0, FadeSteps,
                         FALSE))
    /\ UNCHANGED <<musicZones, mEnable, mWorldReady, mPosition, mSilenced>>
    /\ UNCHANGED notMusic

\* a play() promise is rejected: the element does not play
PlayRejects ==
    /\ mPlays # <<>>
    /\ Becomes([Player EXCEPT !.plays = Tail(mPlays),
                              !.audio[Head(mPlays)].paused = TRUE])
    /\ UNCHANGED <<musicZones, mEnable, mWorldReady, mPosition, mSilenced>>
    /\ UNCHANGED notMusic

\* addMusicZone(zone)
addMusicZone ==
    /\ Len(musicZones) = 1
    /\ musicZones' = Append(musicZones, ZoneTown)
    /\ audioElements' = preloadAudioFiles(audioElements, Append(musicZones, ZoneTown))
    /\ UNCHANGED <<isGameReady, currentZone, fadeInterval, mPlays, mTimers, mEnable,
                   mWorldReady, mPosition, mSilenced, mFrom>>
    /\ UNCHANGED notMusic

\* the callback of the enable setting, behind the change of its value
toggleMusic ==
    /\ Len(mPlays) < MaxPlays
    /\ mEnable' = ~mEnable
    /\ IF ~mEnable
       THEN IF isGameReady
            THEN Becomes(checkPlayerLocation(Player, mWorldReady, mPosition, musicZones))
            ELSE Becomes(Player)
       ELSE Becomes([stopAllMusic(Player) EXCEPT !.currentZone = <<>>])
    /\ UNCHANGED <<musicZones, mWorldReady, mPosition, mSilenced>>
    /\ UNCHANGED notMusic

\* the game finishes loading: the main player and its position exist
WorldLoads ==
    /\ ~mWorldReady
    /\ mWorldReady' = TRUE
    /\ UNCHANGED <<isGameReady, currentZone, fadeInterval, audioElements, musicZones, mPlays,
                   mTimers, mEnable, mPosition, mSilenced, mFrom>>
    /\ UNCHANGED notMusic

\* the main player walks
PlayerMoves ==
    /\ mWorldReady
    /\ \E position \in Positions \ {mPosition} : mPosition' = position
    /\ UNCHANGED <<isGameReady, currentZone, fadeInterval, audioElements, musicZones, mPlays,
                   mTimers, mEnable, mWorldReady, mSilenced, mFrom>>
    /\ UNCHANGED notMusic

MusicNext ==
    \/ MusicStart \/ MusicStop \/ SocketManager_loggedIn \/ SocketManager_handleLoggedOut
    \/ GameLoop_update \/ RetryTimerFires \/ FadeIntervalFires \/ PlayResolves \/ PlayRejects
    \/ addMusicZone \/ toggleMusic \/ WorldLoads \/ PlayerMoves

(***************************************************************************)
(* Claims about the Match Scorer (checked under SpecScore)                 *)
(***************************************************************************)

\* the candidate that sMatch scores: the one held right after Score
Scored == sPc = "mutate" /\ sMatch # <<>>

RequiredProperties == Range(sHookUsage.properties)
RequiredMethods == Range(sHookUsage.methods)

\* the curated lists for the hook being scored (empty without a curated entry)
CuratedList(field) ==
    LET k == FindKnownInfo(sHookName)
    IN  IF k = <<>> THEN <<>>
        ELSE CASE field = "properties" -> k[1].properties
               [] field = "staticProperties" -> k[1].staticProperties
               [] field = "methods" -> k[1].methods
               [] OTHER -> k[1].staticMethods

\* how many entries of a curated list satisfy `present` and, with `onlyNew`,
\* are not among the names usage requires
CuratedHits(list, present(_), required, onlyNew) ==
    Cardinality({i \in 1..Len(list) :
                    present(list[i]) /\ (onlyNew => list[i] \notin required)})

\* The score as a sum of independent contributions; with `onlyNew` a curated
\* entry counts only when usage did not require it already.
ScoreBySum(onlyNew) ==
    LET c == sClientClass
    IN    UsagePropertyScore * Cardinality({p \in RequiredProperties : HasProperty(c, p)})
        + UsageMethodScore * Cardinality({m \in RequiredMethods : HasMethod(c, m)})
        + KnownPropertyScore
            * CuratedHits(CuratedList("properties"), LAMBDA p : HasProperty(c, p),
                          RequiredProperties, onlyNew)
        + KnownStaticPropertyScore
            * CuratedHits(CuratedList("staticProperties"),
                          LAMBDA p : p \in c.staticProperties, RequiredProperties, onlyNew)
        + KnownMethodScore
            * CuratedHits(CuratedList("methods"), LAMBDA m : HasMethod(c, m),
                          RequiredMethods, FALSE)
        + KnownStaticMethodScore
            * CuratedHits(CuratedList("staticMethods"), LAMBDA m : m \in c.staticMethods,
                          RequiredMethods, FALSE)
        + PatternBonus(sHookUsage.properties, c)

\* the scenario of C1: hook "ChatManager", usage requiring property "Instance"
\* and method "sendMessage"
C1_Usage ==
    /\ sHookName = "ChatManager"
    /\ RequiredProperties = {"Instance"}
    /\ RequiredMethods = {"sendMessage"}

\* the candidate of C1: static property "Instance" (hasInstance), instance
\* method "sendMessage", no "_friends" property
C1_Candidate ==
    /\ "Instance" \in sClientClass.staticProperties
    /\ sClientClass.hasInstance
    /\ "sendMessage" \in sClientClass.methods
    /\ ~HasProperty(sClientClass, "_friends")

GainedNewProperty ==
    /\ Scored
    /\ sPrevMatch # <<>>
    /\ sLastAdd.kind = "property"
    /\ ~sLastAdd.had

ScoreIncrease == sMatch[1].matchScore - sPrevMatch[1].matchScore

\* the number of entries of the hook's curated property list that name `p`
CuratedCount(p) ==
    Cardinality({i \in 1..Len(CuratedList("properties")) : CuratedList("properties")[i] = p})

NoDuplicate(array) == \A i, j \in 1..Len(array) : array[i] = array[j] => i = j

\* C26 as stated: in every ClassMatch returned by calculateMatchScore,
\* matchedProperties and missingProperties are disjoint and neither contains
\* a duplicate, and the same holds for matchedMethods and missingMethods.
C26_Original ==
    Scored =>
        /\ Range(sMatch[1].matchedProperties) \cap Range(sMatch[1].missingProperties) = {}
        /\ NoDuplicate(sMatch[1].matchedProperties)
        /\ NoDuplicate(sMatch[1].missingProperties)
        /\ Range(sMatch[1].matchedMethods) \cap Range(sMatch[1].missingMethods) = {}
        /\ NoDuplicate(sMatch[1].matchedMethods)
        /\ NoDuplicate(sMatch[1].missingMethods)

(***************************************************************************)
(* Claims about the Hook Usage Extractor (checked under SpecWalk)          *)
(***************************************************************************)

Walked == wPc = "done"

\* the nodes of a subtree, its root included
RECURSIVE SubNodes(_)
SubNodes(node) == {node} \cup UNION {SubNodes(node.kids[i]) : i \in 1..Len(node.kids)}

\* the references recorded for the lines in L, in the order recorded
DepsAtLines(L) == SelectSeq(dependencies, LAMBDA d : d.line \in L)

Recorded(dep) == \E k \in 1..Len(dependencies) : dependencies[k] = dep

\* C2 as stated: for `const x = gameHooks.Foo.bar; x.baz;` the walk reports,
\* for these two statements, exactly one direct reference (hook "Foo", chain
\* ["bar"]) and exactly one indirect reference (hook "Foo", chain
\* ["bar","baz"], sourceVariable "x"), and no other reference.
C2_Original ==
    Walked =>
        \A i \in 1..(Len(wFile.kids) - 1) :
            (wFile.kids[i] = ConstX /\ wFile.kids[i + 1] = UseX) =>
                /\ Len(DepsAtLines({i, i + 1})) = 2
                /\ Recorded(Dependency(Plain("Foo"), <<Plain("bar")>>, i, TRUE, ""))
                /\ Recorded(Dependency(Plain("Foo"), <<Plain("bar"), Plain("baz")>>,
                                       i + 1, FALSE, "x"))

\* the access expressions of top-level statement i
AccessNodes(i) ==
    {n \in SubNodes(wFile.kids[i]) : n.kind \in {"PropertyAccessExpression", "CallExpression"}}

\* the chain of the node is rooted at one of the four entry patterns
RootedAtEntryPattern(n) ==
    /\ isGameHooksAccess(extractPropertyChain(n))
    /\ getHookNameAndProperties(extractPropertyChain(n)).hookName # EmptyString

\* C3 as stated: every access expression whose chain is rooted at one of the
\* four entry patterns is reported as a direct reference whose hook name is
\* the segment after `gameHooks` and whose property chain is the remaining
\* segments.
C3_Original ==
    Walked =>
        \A i \in 1..Len(wFile.kids) :
            \A n \in AccessNodes(i) :
                RootedAtEntryPattern(n) =>
                    LET chain == extractPropertyChain(n)
                        k == CHOOSE k \in 1..Len(chain) : chain[k] = Plain("gameHooks")
                    IN  Recorded(Dependency(chain[k + 1],
                                            SubSeq(chain, k + 2, Len(chain)), i, TRUE, ""))

\* a declaration `v = <game hooks access>` somewhere in the subtree
DeclaresAlias(node, v) ==
    \E n \in SubNodes(node) :
        /\ n.kind = "VariableDeclaration"
        /\ HasInitializer(n)
        /\ n.kids[1] = Identifier(v)
        /\ RootedAtEntryPattern(InitializerOf(n))

\* a function declaration whose body declares alias v directly and holds no
\* nested function or block
SimpleFunctionDeclaring(node, v) ==
    /\ node.kind = "FunctionDeclaration"
    /\ LET body == node.kids[2]
       IN  /\ \A k \in 1..Len(body.kids) :
                  \A n \in SubNodes(body.kids[k]) : ~IsScopeNode(n)
           /\ \E k \in 1..Len(body.kids) :
                  body.kids[k].kind = "VariableStatement" /\ DeclaresAlias(body.kids[k], v)

\* the last statement before statement j that declares alias v, 0 if none
LatestDeclaration(j, v) ==
    LET D == {i \in 1..(j - 1) : DeclaresAlias(wFile.kids[i], v)}
    IN  IF D = {} THEN 0 ELSE CHOOSE i \in D : \A k \in D : k <= i

AliasNames == {"x"}

\* C4: an alias declared in a function body is not resolvable outside the
\* function: a top-level expression statement that follows
\* `function f(){ const x = gameHooks.Foo.bar; }` (with no later declaration
\* of x before it) gets no indirect reference through x.
C4_FunctionAliasNotVisible ==
    \A j \in 1..Len(wFile.kids) : \A v \in AliasNames :
        (/\ j < wIdx
         /\ wFile.kids[j].kind = "ExpressionStatement"
         /\ LatestDeclaration(j, v) # 0
         /\ SimpleFunctionDeclaring(wFile.kids[LatestDeclaration(j, v)], v))
        => ~\E k \in 1..Len(dependencies) :
               /\ ~dependencies[k].isDirect
               /\ dependencies[k].line = j
               /\ dependencies[k].sourceVariable = v

C4_Witness ==
    /\ Walked
    /\ Len(wFile.kids) = 2
    /\ wFile.kids[1] = FuncConstX
    /\ wFile.kids[2] = UseX
    /\ Recorded(Dependency(Plain("Foo"), <<Plain("bar")>>, 1, TRUE, ""))
    /\ DepsAtLines({2}) = <<>>

\* C20 as stated: once the walk has left the function or block in which an
\* alias was declared, no later access to that variable name outside that
\* scope is recorded as an indirect reference, also when the declaring scope
\* contained nested blocks or functions: a top-level expression statement
\* whose latest earlier declaration of x lies inside a function declaration
\* gets no indirect reference through x.
C20_Original ==
    \A j \in 1..Len(wFile.kids) : \A v \in AliasNames :
        (/\ j < wIdx
         /\ wFile.kids[j].kind = "ExpressionStatement"
         /\ LatestDeclaration(j, v) # 0
         /\ wFile.kids[LatestDeclaration(j, v)].kind = "FunctionDeclaration")
        => ~\E k \in 1..Len(dependencies) :
               /\ ~dependencies[k].isDirect
               /\ dependencies[k].line = j
               /\ dependencies[k].sourceVariable = v

\* C21 as stated: an alias declared at top level stays resolvable for every
\* later top-level access in the same file, whatever function declarations
\* or blocks are walked in between: a top-level `x.baz` whose latest earlier
\* declaration of x is the top-level `const x = gameHooks.Foo.bar;` gets an
\* indirect reference through x.
C21_Original ==
    \A j \in 1..Len(wFile.kids) : \A v \in AliasNames :
        (/\ j < wIdx
         /\ wFile.kids[j] = UseX
         /\ LatestDeclaration(j, v) # 0
         /\ wFile.kids[LatestDeclaration(j, v)] = ConstX)
        => \E k \in 1..Len(dependencies) :
               /\ ~dependencies[k].isDirect
               /\ dependencies[k].line = j
               /\ dependencies[k].sourceVariable = v

\* A stack of scope frames, the tracker the scope tracker is compared with:
\* a frame maps the aliases declared in it to their references; the bottom
\* frame is the top level of the file.
NewFrames == <<EmptyMap>>

\* push on entering a function or block
PushFrame(frames) == Append(frames, EmptyMap)

\* pop, and with it drop the aliases declared in the frame
PopFrame(frames) == SubSeq(frames, 1, Len(frames) - 1)

\* an alias is declared in the innermost frame
DeclareInFrame(frames, variableName, ref) ==
    [frames EXCEPT ![Len(frames)] = MapSet(@, variableName, ref)]

\* the aliases a lookup resolves: those of every open frame, the innermost
\* declaration of a name first
RECURSIVE VisibleAliases(_, _)
VisibleAliases(frames, n) ==
    IF n = 0 THEN EmptyMap
    ELSE LET outer == VisibleAliases(frames, n - 1)
         IN  [k \in DOMAIN outer \cup DOMAIN frames[n] |->
                 IF k \in DOMAIN frames[n] THEN frames[n][k] ELSE outer[k]]

\* the scope tracker that resolves what the frames resolve
FramesView(frames) ==
    [NewScopeTracker EXCEPT !.variableReferences = VisibleAliases(frames, Len(frames))]

\* the walk of visit over the stack of frames; st is [frames, deps]
RECURSIVE frameVisit(_, _, _, _)
RECURSIVE frameForEachChild(_, _, _, _)

frameVisit(node, isInitializer, line, st) ==
    LET s1 == IF IsScopeNode(node) THEN [st EXCEPT !.frames = PushFrame(@)] ELSE st
        declared == DeclarationStep(node, line, [tracker |-> NewScopeTracker, deps |-> <<>>])
        refs == declared.tracker.variableReferences
        s2 == IF declared.deps = <<>> THEN s1
              ELSE [frames |-> DeclareInFrame(s1.frames, node.kids[1].text,
                                              refs[node.kids[1].text]),
                    deps |-> s1.deps \o declared.deps]
        s3 == [s2 EXCEPT !.deps = AccessStep(node, isInitializer, line,
                                             [tracker |-> FramesView(s2.frames),
                                              deps |-> s2.deps]).deps]
        s4 == frameForEachChild(node, 1, line, s3)
    IN  IF IsScopeNode(node) THEN [s4 EXCEPT !.frames = PopFrame(@)] ELSE s4

frameForEachChild(node, i, line, st) ==
    IF i > Len(node.kids) THEN st
    ELSE frameForEachChild(node, i + 1, line,
                           frameVisit(node.kids[i],
                                      node.kind = "VariableDeclaration"
                                          /\ HasInitializer(node) /\ i = 2,
                                      line, st))

\* the state of the frame walk behind the first n statements of the file
RECURSIVE FrameStateAfter(_, _)
FrameStateAfter(tree, n) ==
    IF n = 0 THEN <<[frames |-> NewFrames, deps |-> <<>>]>>
    ELSE LET prior == FrameStateAfter(tree, n - 1)
         IN  Append(prior, frameVisit(tree.kids[n], FALSE, n, prior[n]))

\* the lookups resolved, with the alias each resolved to
IndirectReferences(deps) == SelectSeq(deps, LAMBDA d : ~d.isDirect)

\* C22 as stated: the scope tracker is equivalent to a stack of scope frames:
\* over the events of a well-nested walk, both resolve exactly the same
\* lookups to the same alias, that is, the walk records the same indirect
\* references with either tracker.
C22_Original ==
    IndirectReferences(dependencies) =
        IndirectReferences(FrameStateAfter(wFile, wIdx - 1)[wIdx].deps)

\* the direct references do not depend on the tracker
DirectReferencesAgree ==
    SelectSeq(dependencies, LAMBDA d : d.isDirect) =
        SelectSeq(FrameStateAfter(wFile, wIdx - 1)[wIdx].deps, LAMBDA d : d.isDirect)

(***************************************************************************)
(* Claims about the Hook Registration Extractor                            *)
(***************************************************************************)

\* extractClassMappingsFromCore has returned
CoreExtracted == rPc \in {"regs", "done"}

\* both extractors have returned
RegistrationsExtracted == rPc = "done"

\* a statement that is a call <callee>(first, second) on string literals,
\* the callee being a property access
IsLiteralCall(stmt, callee) ==
    /\ stmt.kind = "ExpressionStatement"
    /\ IsRegistrationCall(ExpressionOf(stmt), callee)
    /\ HasLiteralArguments(ExpressionOf(stmt))

\* a registerClassHook or registerClassOverrideHook call-site of the hook
IsHookCallSite(stmt, hook) ==
    /\ IsLiteralCall(stmt, "registerClassHook") \/ IsLiteralCall(stmt, "registerClassOverrideHook")
    /\ ArgumentsOf(ExpressionOf(stmt))[1].text = hook

\* a registerClass call-site of the hook
IsClassCallSite(stmt, hook) ==
    /\ IsLiteralCall(stmt, "registerClass")
    /\ ArgumentsOf(ExpressionOf(stmt))[2].text = hook

\* the hook names the registration calls of the file give
RegisteredHooks(file) ==
    {h \in HookNames : \E i \in 1..Len(file.kids) :
        IsHookCallSite(file.kids[i], h) \/ IsClassCallSite(file.kids[i], h)}

\* the method names the file registers for the hook
RegisteredMethods(file, hook) ==
    {ArgumentsOf(ExpressionOf(file.kids[i]))[2].text :
        i \in {k \in 1..Len(file.kids) : IsHookCallSite(file.kids[k], hook)}}

\* the class names the file gives the hook through registerClass
RegisteredClasses(file, hook) ==
    {ArgumentsOf(ExpressionOf(file.kids[i]))[1].text :
        i \in {k \in 1..Len(file.kids) : IsClassCallSite(file.kids[k], hook)}}

MappingsOf(list, hook) == {k \in 1..Len(list) : list[k].hookName = hook}

\* C6: after extractClassMappingsFromCore has processed the registration
\* calls of a file, the returned list holds at most one ClassMapping per hook
\* name, and that mapping carries the class name given by registerClass (if
\* any) together with the union of all method names registered for the hook.
C6_Original ==
    CoreExtracted =>
        \A h \in RegisteredHooks(rFile) :
            /\ Cardinality(MappingsOf(rMappings, h)) <= 1
            /\ \A k \in MappingsOf(rMappings, h) :
                /\ rMappings[k].methods = RegisteredMethods(rFile, h)
                /\ RegisteredClasses(rFile, h) # {} =>
                       rMappings[k].clientClassName \in RegisteredClasses(rFile, h)

\* the file with the statements at i and j exchanged, i < j
SwapStatements(file, i, j) ==
    SourceFile(SubSeq(file.kids, 1, i - 1) \o <<file.kids[j]>>
               \o SubSeq(file.kids, i + 1, j - 1) \o <<file.kids[i]>>
               \o SubSeq(file.kids, j + 1, Len(file.kids)))

\* the methods the ClassMapping list holds for the hook
MergedMethods(list, hook) == UNION {list[k].methods : k \in MappingsOf(list, hook)}

\* the methods the usage table holds for the hook
UsageMethods(usage, hook) == IF hook \in DOMAIN usage THEN usage[hook].methods ELSE {}

\* two different hook call-sites of one hook, at i and j
TwoCallSites(file, i, j, hook) ==
    /\ i < j
    /\ IsHookCallSite(file.kids[i], hook)
    /\ IsHookCallSite(file.kids[j], hook)
    /\ file.kids[i] # file.kids[j]

\* C7: processing two registerClassHook / registerClassOverrideHook
\* call-sites of one hook name in either order yields the same merged method
\* set for that hook, in the ClassMapping list and in the hook-registration
\* usage table.
C7_OrderIndependent ==
    RegistrationsExtracted =>
        \A h \in HookNames : \A i, j \in 1..Len(rFile.kids) :
            TwoCallSites(rFile, i, j, h) =>
                /\ MergedMethods(extractClassMappingsFromCore(SwapStatements(rFile, i, j)), h)
                       = MergedMethods(rMappings, h)
                /\ UsageMethods(analyzeFileForHookRegistrations(SwapStatements(rFile, i, j)), h)
                       = UsageMethods(rHookUsage, h)

\* both extractors have merged the methods of two call-sites of one hook
C7_Witness ==
    /\ RegistrationsExtracted
    /\ Len(rFile.kids) >= 2
    /\ TwoCallSites(rFile, 1, 2, "Foo")
    /\ MergedMethods(rMappings, "Foo") = {"m1", "m2"}
    /\ UsageMethods(rHookUsage, "Foo") = {"m1", "m2"}

(***************************************************************************)
(* Claims about the Orchestrator                                           *)
(***************************************************************************)

\* analyzeGameHookDependencies has returned
PipeDone == pPc = "done"

\* the hooks that went through a fresh search
SearchedHooks == {pSearches[k].hookName : k \in 1..Len(pSearches)}

\* C5: for every hook name of the usage table for which core.ts holds a
\* registerClass(clientClassName, hookName) call whose clientClassName is in
\* the recovered candidate set, the run reports the mapping valid, emits the
\* unchanged registerClass line, emits no UPDATE line for the hook and never
\* calls calculateMatchScore for it, whatever other registration calls for
\* the hook precede it in core.ts.
C5_Original ==
    PipeDone =>
        \A i \in 1..Len(pUsage) : \A c \in RegisteredClasses(pCore, pUsage[i].mappedName) :
            HasClientClass(clientClasses, c) =>
                /\ ConsoleLine(pUsage[i].mappedName, "valid") \in Range(pConsole)
                /\ RegisterLine(c, pUsage[i].mappedName) \in Range(results)
                /\ \A k \in 1..Len(results) :
                       results[k].hookName = pUsage[i].mappedName => results[k].kind # "UPDATE"
                /\ pUsage[i].mappedName \notin SearchedHooks

\* hookUsage of the hook in the usage table
UsageOf(hookName) ==
    pUsage[CHOOSE i \in 1..Len(pUsage) : pUsage[i].mappedName = hookName].hookUsage

\* the place of the class in the order the class recoverer discovered it
DiscoveryIndex(className) ==
    CHOOSE k \in 1..Len(clientClasses) : clientClasses[k].name = className

\* the candidates whose score for the hook is positive
PositiveCandidates(hookName) ==
    {k \in 1..Len(clientClasses) :
        calculateMatchScore(UsageOf(hookName), clientClasses[k], hookName).matchScore > 0}

\* the match list holds the candidates of positive score, each once
HoldsPositiveCandidates(search) ==
    /\ Len(search.matches) = Cardinality(PositiveCandidates(search.hookName))
    /\ \A k \in PositiveCandidates(search.hookName) :
           \E i \in 1..Len(search.matches) :
               search.matches[i] =
                   calculateMatchScore(UsageOf(search.hookName), clientClasses[k],
                                       search.hookName)

\* descending by score; equal scores in discovery order
RankedByScoreThenDiscovery(matches) ==
    \A i, j \in 1..Len(matches) :
        i < j =>
            \/ matches[i].matchScore > matches[j].matchScore
            \/ /\ matches[i].matchScore = matches[j].matchScore
               /\ DiscoveryIndex(matches[i].clientClassName)
                      < DiscoveryIndex(matches[j].clientClassName)

\* every line the run has for the hook names the first class of the list
SuggestsFirst(search) ==
    \A k \in 1..Len(results) :
        results[k].hookName = search.hookName =>
            /\ Len(search.matches) > 0
            /\ results[k].clientClassName = search.matches[1].clientClassName

\* C10: for every hook that goes through a fresh search, the match list
\* holds exactly the candidates with matchScore > 0, ordered by descending
\* score, candidates of equal score in the order the class recoverer
\* discovered them; the suggested class is the first of that list.
C10_Ranking ==
    \A s \in 1..Len(pSearches) :
        /\ HoldsPositiveCandidates(pSearches[s])
        /\ RankedByScoreThenDiscovery(pSearches[s].matches)
        /\ SuggestsFirst(pSearches[s])

\* a fresh search over three candidates left one out, kept two of equal
\* score in discovery order, and suggested the first
C10_Witness ==
    /\ PipeDone
    /\ Len(clientClasses) = 3
    /\ \E s \in 1..Len(pSearches) :
        /\ Len(pSearches[s].matches) = 2
        /\ pSearches[s].matches[1].matchScore = pSearches[s].matches[2].matchScore
        /\ DiscoveryIndex(pSearches[s].matches[1].clientClassName)
               < DiscoveryIndex(pSearches[s].matches[2].clientClassName)
        /\ RegisterLine(pSearches[s].matches[1].clientClassName, pSearches[s].hookName)
               \in Range(results)

\* the lines of results that name the hook
LinesOf(hookName) == {k \in 1..Len(results) : results[k].hookName = hookName}

\* the best match of the search is missing or scores below the threshold
BelowThreshold(search) ==
    Len(search.matches) = 0 \/ search.matches[1].matchScore < SuggestThreshold

\* the diagnostic that asks for a manual review of the hook: "needs manual
\* review" behind a best match, "No matches found" behind an empty list
FlaggedForReview(search) ==
    IF Len(search.matches) > 0
    THEN ConsoleLine(search.hookName, "needs manual review") \in Range(pConsole)
    ELSE ConsoleLine(search.hookName, "No matches found") \in Range(pConsole)

\* C11: a fresh search emits a line only when the top candidate scores at
\* least 2: for every hook whose best match scores 0 or 1, or that has no
\* match, no line for that hook is appended to results and the hook is
\* flagged for manual review.
C11_BelowThresholdNoLine ==
    \A s \in 1..Len(pSearches) :
        BelowThreshold(pSearches[s]) =>
            /\ LinesOf(pSearches[s].hookName) = {}
            /\ FlaggedForReview(pSearches[s])

\* a search ended with a best match of score 1, one with no match at all
C11_Witness ==
    /\ PipeDone
    /\ \E s, t \in 1..Len(pSearches) :
        /\ Len(pSearches[s].matches) > 0
        /\ pSearches[s].matches[1].matchScore = 1
        /\ LinesOf(pSearches[s].hookName) = {}
        /\ Len(pSearches[t].matches) = 0
        /\ clientClasses # <<>>

\* the hooks the discovery loop has gone through
ProcessedHooks == {pUsage[i].mappedName : i \in 1..(pIdx - 1)}

\* the existing mapping of the hook names a class the client does not have
HasStaleMapping(hookName) ==
    /\ ExistingMapping(classMappings, hookName) # <<>>
    /\ ~HasClientClass(clientClasses, ExistingMapping(classMappings, hookName)[1].clientClassName)

\* the class name of the existing mapping of the hook
PriorClass(hookName) == ExistingMapping(classMappings, hookName)[1].clientClassName

\* the names of the recovered candidates, in discovery order
CandidateNames == [k \in 1..Len(clientClasses) |-> clientClasses[k].name]

\* C12: if the existing mapping of a hook names a class that is absent from
\* the recovered candidate set (the placeholder "UNKNOWN" included), the
\* mapping is reported invalid, every candidate is scored, and the only line
\* that can be emitted for the hook is an UPDATE line naming the best match
\* and the prior class name; the stale registerClass line is never emitted.
C12_StaleMappingUpdated ==
    \A h \in ProcessedHooks :
        HasStaleMapping(h) =>
            /\ ConsoleLine(h, "INVALID") \in Range(pConsole)
            /\ ConsoleLine(h, "valid") \notin Range(pConsole)
            /\ \E s \in 1..Len(pSearches) :
                /\ pSearches[s].hookName = h
                /\ \A k \in 1..Len(clientClasses) : pSearches[s].scored[k] = CandidateNames[k]
                /\ Len(pSearches[s].scored) = Len(clientClasses)
                /\ \A k \in LinesOf(h) :
                    /\ Len(pSearches[s].matches) > 0
                    /\ results[k].kind = "UPDATE"
                    /\ results[k].clientClassName = pSearches[s].matches[1].clientClassName
                    /\ results[k].was = PriorClass(h)
            /\ RegisterLine(PriorClass(h), h) \notin Range(results)

\* a placeholder mapping was replaced by an UPDATE line, another stale
\* mapping was left without a line
C12_Witness ==
    /\ PipeDone
    /\ \E k \in 1..Len(results) :
        /\ results[k].kind = "UPDATE"
        /\ results[k].was = "UNKNOWN"
    /\ \E h \in ProcessedHooks : HasStaleMapping(h) /\ LinesOf(h) = {}

(***************************************************************************)
(* Claims about the Class Recoverer                                        *)
(***************************************************************************)

\* the promise of parseClientForClasses has resolved
Resolved == cPc = "resolved"

\* the names some statement of the bundle declares or assigns to
RECURSIVE NamesIn(_)
NamesIn(node) ==
    (IF node.type \in {"ClassDeclaration", "FunctionDeclaration", "VariableDeclarator"}
     THEN {node.name}
     ELSE IF node.type = "AssignmentExpression" /\ node.kind # "this" THEN {node.object}
     ELSE {})
    \cup UNION {NamesIn(node.kids[i]) : i \in 1..Len(node.kids)}

\* C13: every ClientClass returned by parseClientForClasses has a name of 1
\* to 3 characters, all of them ASCII letters, whatever declarations and
\* assignments the client bundle contains.
C13_ShortAlphabeticNames ==
    \A k \in 1..Len(cClasses) :
        /\ Len(Spelling[cClasses[k].name]) \in 1..3
        /\ Range(Spelling[cClasses[k].name]) \subseteq AsciiLetters

\* a bundle that declares a four-letter class and assigns to a name with a
\* digit has resolved to a non-empty list
C13_Witness ==
    /\ Resolved
    /\ cClasses # <<>>
    /\ \E i, j \in 1..Len(cBundle) :
        /\ "abcd" \in NamesIn(cBundle[i])
        /\ "a1" \in NamesIn(cBundle[j])

\* C14: every ClientClass in the list returned by parseClientForClasses has
\* at least one element in its instance properties, instance methods, static
\* properties or static methods.
C14_NoEmptyCandidate ==
    \A k \in 1..Len(cClasses) :
        cClasses[k].properties \cup cClasses[k].methods
            \cup cClasses[k].staticProperties \cup cClasses[k].staticMethods # {}

\* classMap held a class without members, and the list resolved without it
C14_Witness ==
    /\ Resolved
    /\ cClasses # <<>>
    /\ \E k \in 1..Len(classMap) :
        /\ MemberCount(classMap[k]) = 0
        /\ \A j \in 1..Len(cClasses) : cClasses[j].name # classMap[k].name

\* the member of a class body is in the set of the class that its kind and
\* its static modifier name
MemberRecorded(member, class) ==
    /\ member.name \in (IF member.static THEN class.staticMethods ELSE class.methods)
    /\ member.kind \in {"get", "set"} =>
           member.name \in (IF member.static THEN class.staticProperties ELSE class.properties)

\* C23 as stated: while the walk is inside the body of a class declaration
\* whose name is 1-3 letters, every method or accessor definition of that
\* class body is added to that class's sets, including the members that
\* come after a nested function declaration inside an earlier member; and
\* the members of a declaration whose name does not qualify are added to no
\* candidate.
C23_Original ==
    \A k \in 1..(cIdx - 1) :
        cBundle[k].type = "ClassDeclaration" =>
            IF IsCandidateName(cBundle[k].name)
            THEN /\ ClassIndex(classMap, cBundle[k].name) # 0
                 /\ \A i \in 1..Len(cBundle[k].kids) :
                        MemberRecorded(cBundle[k].kids[i],
                                       classMap[ClassIndex(classMap, cBundle[k].name)])
            ELSE RecoveryAfter(cBundle, k)[k + 1].classMap = RecoveryAfter(cBundle, k)[k].classMap

\* C25: after class recovery of any bundle, for every candidate hasInstance
\* is true exactly when "Instance" is in its static property set, and
\* hasManager is true exactly when "Manager" is in its static property set; a
\* static non-accessor method named "Manager" sets neither.
C25_FlagsAgree ==
    /\ \A k \in 1..Len(classMap) :
        /\ classMap[k].hasInstance <=> "Instance" \in classMap[k].staticProperties
        /\ classMap[k].hasManager <=> "Manager" \in classMap[k].staticProperties
    /\ \A k \in 1..Len(cClasses) :
        /\ cClasses[k].hasInstance <=> "Instance" \in cClasses[k].staticProperties
        /\ cClasses[k].hasManager <=> "Manager" \in cClasses[k].staticProperties

\* the bundle `class CM { static get Instance() {} static Manager() {} }
\* class ab { static Instance() {} static get Manager() {} }` resolved: CM has
\* the static method Manager and neither the flag nor the static property; ab
\* has both flags and both static properties
C25_Witness ==
    /\ Resolved
    /\ cBundle = <<ClassCMStatics, ClassAbStatics>>
    /\ Len(cClasses) = 2
    /\ "Manager" \in cClasses[1].staticMethods
    /\ ~cClasses[1].hasManager /\ "Manager" \notin cClasses[1].staticProperties
    /\ cClasses[1].hasInstance
    /\ cClasses[2].hasInstance /\ "Instance" \in cClasses[2].staticProperties
    /\ cClasses[2].hasManager /\ "Manager" \in cClasses[2].staticProperties

(***************************************************************************)
(* Claims about the failure of a file                                      *)
(***************************************************************************)

\* analyzeFileForGameHooks has returned behind its catch block
WalkFailed == wPc = "failed"

\* C16: if reading, parsing or walking a file raises an error at any point,
\* analyzeFileForGameHooks returns no reference for that file (not the
\* references collected before the error), after one warning.
C16_Original == WalkFailed => dependencies = <<>> /\ wWarnings = 1

(***************************************************************************)
(* Claims about the Usage Aggregator                                       *)
(***************************************************************************)

\* usage is complete
Aggregated == aPc = "done"

\* the orders the same files can be processed in
Reorderings(files) ==
    {order \in [1..Len(files) -> Range(files)] : Range(order) = Range(files)}

\* what the claim compares of one entry
Aggregate(entry) ==
    [properties |-> entry.properties, methods |-> entry.methods, files |-> entry.files,
     fromDirectAccess |-> entry.fromDirectAccess,
     fromHookRegistration |-> entry.fromHookRegistration]

\* the same hook names, and for each the same aggregate
SameTable(t1, t2) ==
    /\ DOMAIN t1 = DOMAIN t2
    /\ \A h \in DOMAIN t1 : Aggregate(t1[h]) = Aggregate(t2[h])

\* C15: for every set of source files, processing the files in any two
\* different orders yields the same HookUsage table: the same hook names,
\* and for each the same property set, method set, file set,
\* fromDirectAccess and fromHookRegistration.
C15_FileOrderIndependent ==
    Aggregated =>
        \A order \in Reorderings(aFiles) : SameTable(AggregateUsage(order), aUsage)

\* three files were processed; one hook is fed by references and
\* registrations of different files
C15_Witness ==
    /\ Aggregated
    /\ Len(aFiles) = 3
    /\ \E h \in DOMAIN aUsage :
        /\ Cardinality(aUsage[h].files) = 3
        /\ aUsage[h].fromDirectAccess
        /\ aUsage[h].fromHookRegistration
        /\ aUsage[h].properties # {}
        /\ aUsage[h].methods # {}

\* the files of the model in which `bar` is accessed without a call
AccessesBarWithoutCall == {FileAlias, FileAliasCall}

\* C24 as stated: for `gameHooks.Foo.bar()`, the HookUsage of Foo after
\* aggregation has "bar" in its method set and does not have "bar" in its
\* property set, when "bar" is never accessed without a call.
C24_Original ==
    (/\ Aggregated
     /\ FileCall \in Range(aFiles)
     /\ Range(aFiles) \cap AccessesBarWithoutCall = {})
    => /\ Plain("Foo") \in DOMAIN aUsage
       /\ Plain("bar") \in aUsage[Plain("Foo")].methods
       /\ Plain("bar") \notin aUsage[Plain("Foo")].properties

\* a non-empty identifier without a call marker
IsPlainIdentifier(prop) == prop.name # "" /\ prop.calls = 0

\* C27 as stated: every name in the property set and in the method set of
\* every HookUsage aggregate is a non-empty identifier without a call marker,
\* for every sequence of direct references, alias member accesses, alias
\* method calls and direct calls of an alias (`x()`).
C27_Original ==
    \A h \in DOMAIN aUsage :
        \A prop \in aUsage[h].properties \cup aUsage[h].methods : IsPlainIdentifier(prop)

(***************************************************************************)
(* Claims about the failure of the client bundle                           *)
(***************************************************************************)

\* the warnings of the catch block of parseClientForClasses
ClientWarnings ==
    {k \in 1..Len(pConsole) : pConsole[k] = ConsoleLine("", "Error parsing client code")}

\* C17: if parsing or walking the client bundle raises an error,
\* parseClientForClasses resolves with an empty candidate list (never a
\* partial catalog), the failure is reported once and not retried, and the
\* run appends no registration line to the results list.
C17_ClientFailureAllOrNothing ==
    ClientWarnings # {} =>
        /\ clientClasses = <<>>
        /\ Cardinality(ClientWarnings) = 1
        /\ results = <<>>

\* a run whose client recovery failed went through two hooks, one of them
\* with a mapping in core.ts
C17_Witness ==
    /\ PipeDone
    /\ ClientWarnings # {}
    /\ Len(pUsage) = 2
    /\ classMappings # <<>>
    /\ Len(pSearches) = 2

\* obtainGameClient has rejected
FetchFailed == ConsoleLine("", "Error analyzing client code") \in Range(pConsole)

\* C18: a fetch failure while obtaining the client bundle propagates to the
\* top level: analyzeGameHookDependencies does not complete normally, its
\* promise is rejected, and the top-level error handler, not the success
\* handler, runs.
C18_Original == FetchFailed => pPromise # "fulfilled" /\ pHandler # "then"

\* C18, as the code has it: a fetch failure is caught inside
\* analyzeGameHookDependencies and reported there; the discovery loop is
\* skipped, the promise is fulfilled, and the success handler, never the
\* error handler, runs, on an empty results list.
C18_FetchFailureCaught ==
    FetchFailed =>
        /\ pPromise = "fulfilled"
        /\ pHandler # "catch"
        /\ clientClasses = <<>>
        /\ pSearches = <<>>
        /\ results = <<>>

\* the success handler ran behind a fetch failure, in a run with two hooks
C18_Witness ==
    /\ FetchFailed
    /\ pHandler = "then"
    /\ Len(pUsage) = 2

(***************************************************************************)
(* Claims about the Client Source (checked under SpecClient)               *)
(***************************************************************************)

\* a run with the cache enabled has returned
CachedRunDone == gPc = "done" /\ ~gIgnoreDB

\* C19: when obtainGameClient runs with the cache enabled and the stored
\* clientLastVersion is not lower than the remote latestClientVersion, the
\* bundle URL is not fetched, nothing is written to the store and the stored
\* bundle text is returned; when the stored version is lower, the bundle is
\* fetched and both the bundle text and the new version are stored.
C19_VersionCache ==
    CachedRunDone =>
        IF StoredVersion(gStartDb) >= remoteLastVersion
        THEN /\ ~gFetched
             /\ gWrites = <<>>
             /\ gDb = gStartDb
             /\ "highSpellClient" \in DOMAIN gStartDb
             /\ gReturned = << <<gStartDb["highSpellClient"]>> >>
        ELSE /\ gFetched
             /\ gWrites = <<"highSpellClient", "clientLastVersion">>
             /\ gDb["highSpellClient"] = [version |-> remoteLastVersion, patched |-> TRUE]
             /\ gDb["clientLastVersion"] = remoteLastVersion

\* a run served from the store: the stored version equals the announced one
C19_Witness ==
    /\ CachedRunDone
    /\ StoredVersion(gStartDb) = remoteLastVersion
    /\ gReturned = << <<gStartDb["highSpellClient"]>> >>

\* the store holds a version, and a text of that version or of a later one
VersionBackedByText(db) ==
    "clientLastVersion" \in DOMAIN db =>
        /\ "highSpellClient" \in DOMAIN db
        /\ db["clientLastVersion"] <= db["highSpellClient"].version

\* C30: in every state reachable by obtainGameClient with the cache
\* enabled, including when a run fails between its two cache writes, the
\* stored clientLastVersion is never newer than the version of the stored
\* highSpellClient text, and a run never returns a bundle older than the
\* version the cache claims.
C30_CrashConsistent ==
    /\ VersionBackedByText(gDb)
    /\ CachedRunDone =>
        /\ gReturned[1] # <<>>
        /\ gReturned[1][1].version >= StoredVersion(gDb)

\* a run failed between its two writes, and the run behind it returned
C30_Witness ==
    /\ CachedRunDone
    /\ gRuns >= 3
    /\ "highSpellClient" \in DOMAIN gStartDb
    /\ StoredVersion(gStartDb) >= 1
    /\ gStartDb["highSpellClient"].version > StoredVersion(gStartDb)
    /\ gReturned[1] # <<>>

(***************************************************************************)
(* Claims about LocationMusicPlayer (checked under SpecMusic)              *)
(***************************************************************************)

\* the sounds whose audio element plays
Playing == {sound \in DOMAIN audioElements : ~audioElements[sound].paused}

\* C28 as stated: after stop() or SocketManager_handleLoggedOut(),
\* isGameReady remains false and no audio element starts playing until the
\* next start() or SocketManager_loggedIn(), under every interleaving of
\* these calls with the pending waitForGameReady retry timers and
\* GameLoop_update ticks.
C28_Original == mSilenced => ~isGameReady /\ Playing = {}

\* C29 as stated: after transitionToZone from zone A to a zone B with a
\* different sound, once no fade interval is pending, the audio of A is
\* paused and only the audio of the current zone is playing, under every
\* interleaving of the fade-out interval of A with the resolution of play()
\* for B and its fade-in.
C29_Original ==
    (/\ fadeInterval = <<>>
     /\ currentZone # <<>>
     /\ mFrom # <<>>
     /\ mFrom[1].sound # currentZone[1].sound)
    => /\ audioElements[mFrom[1].sound].paused
       /\ Playing \subseteq {currentZone[1].sound}

(***************************************************************************)
(* Specifications                                                          *)
(***************************************************************************)

InitScore == AggIdle /\ ParseIdle /\ WalkIdle /\ RegIdle /\ PipeIdle /\ ScoreInit /\ ClientIdle /\ MusicIdle
SpecScore == InitScore /\ [][ScoreNext]_vars

InitWalk == AggIdle /\ ParseIdle /\ ScoreIdle /\ RegIdle /\ PipeIdle /\ WalkInit /\ ClientIdle /\ MusicIdle
SpecWalk == InitWalk /\ [][WalkNext]_vars

InitReg == AggIdle /\ ParseIdle /\ ScoreIdle /\ WalkIdle /\ PipeIdle /\ RegInit /\ ClientIdle /\ MusicIdle
SpecReg == InitReg /\ [][RegNext]_vars

InitPipe == AggIdle /\ ParseIdle /\ ScoreIdle /\ WalkIdle /\ RegIdle /\ PipeInit /\ ClientIdle /\ MusicIdle
SpecPipe == InitPipe /\ [][PipeNext]_vars

InitParse == AggIdle /\ ScoreIdle /\ WalkIdle /\ RegIdle /\ PipeIdle /\ ParseInit /\ ClientIdle /\ MusicIdle
SpecParse == InitParse /\ [][ParseNext]_vars

InitAgg == ScoreIdle /\ WalkIdle /\ RegIdle /\ PipeIdle /\ ParseIdle /\ AggInit /\ ClientIdle /\ MusicIdle
SpecAgg == InitAgg /\ [][AggNext]_vars

InitClient ==
    ScoreIdle /\ WalkIdle /\ RegIdle /\ PipeIdle /\ ParseIdle /\ AggIdle /\ ClientInit /\ MusicIdle
SpecClient == InitClient /\ [][ClientNext]_vars

InitMusic ==
    ScoreIdle /\ WalkIdle /\ RegIdle /\ PipeIdle /\ ParseIdle /\ AggIdle /\ ClientIdle
    /\ MusicInit
SpecMusic == InitMusic /\ [][MusicNext]_vars

====
